---- MODULE Spec2Model ----
(***************************************************************************)
(* Image pipeline of src/server/services/downloadImages/imageService.ts    *)
(* (the second, current definition of the service, lines 187-1362) and the *)
(* getImages endpoint that calls it.                                       *)
(*                                                                         *)
(* The specifications share the definitions below:                         *)
(*   SpecCluster  filterSimilarUrls applied to a candidate sequence        *)
(*   SpecCheck    checkImageExists applied to one probe outcome            *)
(*   SpecBatch    checkBatchImageUrls, check by check                      *)
(*   Spec         the getImages endpoint and getImagesFromUrl              *)
(*   SpecExtract  detectBrand and extractProductCode applied to a page URL *)
(*   SpecSimilar  areSimilarImageUrls applied to a pair of URLs            *)
(*   SpecDedup    the exact-string dedup of getImagesFromUrl               *)
(***************************************************************************)
EXTENDS Integers, Sequences, FiniteSets, TLC

VARIABLES
  pc,            \* control point of the operation under way
  page,          \* the page URL handed to the endpoint
  brand,         \* SupportedBrand of the run
  generatedUrls, \* getImagesFromUrl: generatedUrls
  scrapedUrls,   \* getImagesFromUrl: scrapedUrls
  urls,          \* the argument of filterSimilarUrls / checkBatchImageUrls
  clusters,      \* what filterSimilarUrls did with urls
  i,             \* checkBatchImageUrls: loop index i (0-based, as in the code)
  inflight,      \* positions (1-based) whose checkImageExists promise is pending
  results,       \* settled checks of the current batch: position -> isValid
  validUrls,     \* checkBatchImageUrls: validUrls
  net,           \* the network as seen by this run
  started,       \* history: positions in the order their check was started
  batches,       \* history: the batches issued, each a sequence of positions
  probe,         \* SpecCheck: the outcome of axios.get
  verdict,       \* SpecCheck: what checkImageExists returned
  response,      \* what the caller of the endpoint got
  pageUrl,       \* SpecExtract: the page URL, character by character
  productCode,   \* SpecExtract: what extractProductCode returned
  doc,           \* SpecScrape: the elements of the fetched page, in document order
  now,           \* SpecSearch: Date.now()
  lastRequestTime, \* GoogleSearchClient.lastRequestTime
  searches,      \* SpecSearch: the calls of GoogleSearchClient.search
  requests       \* history: the requests sent to the search API

vars == <<pc, page, brand, generatedUrls, scrapedUrls, urls, clusters, i,
          inflight, results, validUrls, net, started, batches, probe,
          verdict, response, pageUrl, productCode, doc, now,
          lastRequestTime, searches, requests>>

searchVars == <<now, lastRequestTime, searches, requests>>

(***************************************************************************)
(* Candidate URLs.  A candidate is an index into UrlTable; the table holds *)
(* each string with what the code's string operations read from it:        *)
(*   abs, host      new URL(s) parses / new URL(s).hostname                *)
(*   idx            the integer s denotes when s is a canonical array      *)
(*                  index ("0", "7", ...), else -1                         *)
(*   marks          which of zoom, 1800, 1200, 900, 600 s includes         *)
(*   amatch..aangle extractPattern of areSimilarAsicsImageUrls             *)
(*   vmatch, vcode  extractViewCode of areSimilarBottegaVenetaImageUrls    *)
(*   base           stripQueryAndSize of areSimilarGenericImageUrls        *)
(*   stem           getFilename(s).split('.')[0]                           *)
(* Entries 1-4 are URLs generateAsicsImageUrls builds for 1203A474_002,    *)
(* 6-7 URLs generateGenericBrandImageUrls builds for AB12, 10-11 URLs      *)
(* generateBottegaVenetaImageUrls builds for ABC123, each list in the      *)
(* order of generation; 5, 8 and 9 are attribute values a page can carry   *)
(* (scrapeAsicsImages and scrapeBottegaVenetaImages add them unresolved);  *)
(* 12 is entry 1 seen from the left, 13-15 are entry 10 with a view code:  *)
(* front at two sizes, and back.                                           *)
(***************************************************************************)
UrlTable ==
  <<
    [s |-> "https://images.asics.com/is/image/asics/1203A474_002_SR_RT_GLB?$zoom$",
     abs |-> TRUE, host |-> "images.asics.com", idx |-> -1, marks |-> {"zoom"},
     amatch |-> TRUE, acode |-> "1203A474_002_SR_RT_GLB", aview |-> "", aangle |-> "",
     vmatch |-> TRUE, vcode |-> "_00",
     base |-> "https://images.asics.com/is/image/asics/1203A474_002_SR_RT_GLB",
     stem |-> "1203A474_002_SR_RT_GLB"],
    [s |-> "https://images.asics.com/is/image/asics/1203A474_002_SR_RT_GLB?$sfcc-product-900x900$",
     abs |-> TRUE, host |-> "images.asics.com", idx |-> -1, marks |-> {"900"},
     amatch |-> TRUE, acode |-> "1203A474_002_SR_RT_GLB", aview |-> "", aangle |-> "",
     vmatch |-> TRUE, vcode |-> "_00",
     base |-> "https://images.asics.com/is/image/asics/1203A474_002_SR_RT_GLB",
     stem |-> "1203A474_002_SR_RT_GLB"],
    [s |-> "https://images.asics.com/is/image/asics/1203A474_002_SR_RT_GLB?$sfcc-product-600x600$",
     abs |-> TRUE, host |-> "images.asics.com", idx |-> -1, marks |-> {"600"},
     amatch |-> TRUE, acode |-> "1203A474_002_SR_RT_GLB", aview |-> "", aangle |-> "",
     vmatch |-> TRUE, vcode |-> "_00",
     base |-> "https://images.asics.com/is/image/asics/1203A474_002_SR_RT_GLB",
     stem |-> "1203A474_002_SR_RT_GLB"],
    [s |-> "https://images.asics.com/is/image/asics/1203A474_002_SR_RT_GLB?width=1800&height=1800&fmt=jpeg",
     abs |-> TRUE, host |-> "images.asics.com", idx |-> -1, marks |-> {"1800"},
     amatch |-> TRUE, acode |-> "1203A474_002_SR_RT_GLB", aview |-> "", aangle |-> "",
     vmatch |-> TRUE, vcode |-> "_00",
     base |-> "https://images.asics.com/is/image/asics/1203A474_002_SR_RT_GLB",
     stem |-> "1203A474_002_SR_RT_GLB"],
    [s |-> "https://cdn.brand.com/products/AB12_1_600x600.jpg",
     abs |-> TRUE, host |-> "cdn.brand.com", idx |-> -1, marks |-> {"600"},
     amatch |-> FALSE, acode |-> "", aview |-> "", aangle |-> "",
     vmatch |-> TRUE, vcode |-> "_60",
     base |-> "https://cdn.brand.com/products/AB12_1.jpg",
     stem |-> "AB12_1_600x600"],
    [s |-> "https://cdn.brand.com/products/AB12_1.jpg?w=1200&h=1200",
     abs |-> TRUE, host |-> "cdn.brand.com", idx |-> -1, marks |-> {"1200"},
     amatch |-> FALSE, acode |-> "", aview |-> "", aangle |-> "",
     vmatch |-> FALSE, vcode |-> "",
     base |-> "https://cdn.brand.com/products/AB12_1.jpg",
     stem |-> "AB12_1"],
    [s |-> "https://cdn.brand.com/products/AB12_1.jpg",
     abs |-> TRUE, host |-> "cdn.brand.com", idx |-> -1, marks |-> {},
     amatch |-> FALSE, acode |-> "", aview |-> "", aangle |-> "",
     vmatch |-> FALSE, vcode |-> "",
     base |-> "https://cdn.brand.com/products/AB12_1.jpg",
     stem |-> "AB12_1"],
    [s |-> "/images/AB12_1_600x600.png",
     abs |-> FALSE, host |-> "", idx |-> -1, marks |-> {"600"},
     amatch |-> FALSE, acode |-> "", aview |-> "", aangle |-> "",
     vmatch |-> TRUE, vcode |-> "_60",
     base |-> "/images/AB12_1.png",
     stem |-> "AB12_1_600x600"],
    [s |-> "7",
     abs |-> FALSE, host |-> "", idx |-> 7, marks |-> {},
     amatch |-> FALSE, acode |-> "", aview |-> "", aangle |-> "",
     vmatch |-> FALSE, vcode |-> "",
     base |-> "7",
     stem |-> "7"],
    [s |-> "https://image.bottegaveneta.com/product/ABC123.jpg?$zoom$",
     abs |-> TRUE, host |-> "image.bottegaveneta.com", idx |-> -1, marks |-> {"zoom"},
     amatch |-> FALSE, acode |-> "", aview |-> "", aangle |-> "",
     vmatch |-> FALSE, vcode |-> "",
     base |-> "https://image.bottegaveneta.com/product/ABC123.jpg",
     stem |-> "ABC123"],
    [s |-> "https://image.bottegaveneta.com/product/ABC123.jpg?$large$",
     abs |-> TRUE, host |-> "image.bottegaveneta.com", idx |-> -1, marks |-> {},
     amatch |-> FALSE, acode |-> "", aview |-> "", aangle |-> "",
     vmatch |-> FALSE, vcode |-> "",
     base |-> "https://image.bottegaveneta.com/product/ABC123.jpg",
     stem |-> "ABC123"],
    [s |-> "https://images.asics.com/is/image/asics/1203A474_002_SR_LT_GLB?$zoom$",
     abs |-> TRUE, host |-> "images.asics.com", idx |-> -1, marks |-> {"zoom"},
     amatch |-> TRUE, acode |-> "1203A474_002_SR_LT_GLB", aview |-> "", aangle |-> "",
     vmatch |-> TRUE, vcode |-> "_00",
     base |-> "https://images.asics.com/is/image/asics/1203A474_002_SR_LT_GLB",
     stem |-> "1203A474_002_SR_LT_GLB"],
    [s |-> "https://image.bottegaveneta.com/product/ABC123_F.jpg?$zoom$",
     abs |-> TRUE, host |-> "image.bottegaveneta.com", idx |-> -1, marks |-> {"zoom"},
     amatch |-> FALSE, acode |-> "", aview |-> "", aangle |-> "",
     vmatch |-> TRUE, vcode |-> "_F",
     base |-> "https://image.bottegaveneta.com/product/ABC123_F.jpg",
     stem |-> "ABC123_F"],
    [s |-> "https://image.bottegaveneta.com/product/ABC123_F.jpg?$large$",
     abs |-> TRUE, host |-> "image.bottegaveneta.com", idx |-> -1, marks |-> {},
     amatch |-> FALSE, acode |-> "", aview |-> "", aangle |-> "",
     vmatch |-> TRUE, vcode |-> "_F",
     base |-> "https://image.bottegaveneta.com/product/ABC123_F.jpg",
     stem |-> "ABC123_F"],
    [s |-> "https://image.bottegaveneta.com/product/ABC123_B.jpg?$zoom$",
     abs |-> TRUE, host |-> "image.bottegaveneta.com", idx |-> -1, marks |-> {"zoom"},
     amatch |-> FALSE, acode |-> "", aview |-> "", aangle |-> "",
     vmatch |-> TRUE, vcode |-> "_B",
     base |-> "https://image.bottegaveneta.com/product/ABC123_B.jpg",
     stem |-> "ABC123_B"]
  >>

NUrls == Len(UrlTable)

\* A string outside the table: a further generated URL, absolute, matching
\* no brand pattern, similar to nothing but itself.
Synthetic(id) ==
  LET name == "g" \o ToString(id)
  IN  [s |-> "https://img.example.com/" \o name, abs |-> TRUE,
       host |-> "img.example.com", idx |-> -1, marks |-> {}, amatch |-> FALSE,
       acode |-> "", aview |-> "", aangle |-> "", vmatch |-> FALSE,
       vcode |-> "", base |-> "https://img.example.com/" \o name,
       stem |-> name]

Feat(id) == IF id \in 1..NUrls THEN UrlTable[id] ELSE Synthetic(id)

ASICS == "asics"
BOTTEGA_VENETA == "bottegaveneta"
UNKNOWN == "unknown"
SupportedBrand == {ASICS, BOTTEGA_VENETA, UNKNOWN}

\* Outcomes of a similarity test: a boolean, or the TypeError of new URL().
Similar == "similar"
Different == "different"
InvalidUrl == "TypeError: Invalid URL"

Bool(b) == IF b THEN Similar ELSE Different

\* A comparison that looks at no token after "asics/".
AsicsIgnoringTokens(url1, url2) == Feat(url1).amatch /\ Feat(url2).amatch

areSimilarAsicsImageUrls(url1, url2) ==
  LET pattern1 == Feat(url1)
      pattern2 == Feat(url2)
  IN  IF ~pattern1.amatch \/ ~pattern2.amatch THEN FALSE
      ELSE IF /\ pattern1.acode = pattern2.acode
              /\ pattern1.aangle = pattern2.aangle
              /\ pattern1.aview = pattern2.aview THEN TRUE
      ELSE IF /\ pattern1.acode = pattern2.acode
              /\ \/ (pattern1.aangle = "" /\ pattern2.aangle = "")
                 \/ (pattern1.aview = "" /\ pattern2.aview = "") THEN TRUE
      ELSE FALSE

areSimilarBottegaVenetaImageUrls(url1, url2) ==
  LET f1 == Feat(url1)
      f2 == Feat(url2)
  IN  IF url1 = url2 THEN Similar
      ELSE IF f1.vmatch /\ f2.vmatch /\ f1.vcode # f2.vcode THEN Different
      ELSE IF ~f1.abs \/ ~f2.abs THEN InvalidUrl
      ELSE IF f1.host = f2.host /\ ~f1.vmatch /\ ~f2.vmatch THEN Similar
      ELSE Different

\* A comparison of the first URL without its query and size against the
\* second URL as written.
GenericOneSided(url1, url2) == Feat(url1).base = Feat(url2).s

areSimilarGenericImageUrls(url1, url2) ==
  LET base1 == Feat(url1).base
      base2 == Feat(url2).base
      file1 == Feat(url1).stem
      file2 == Feat(url2).stem
  IN  IF base1 = base2 THEN TRUE
      ELSE IF file1 = file2 THEN TRUE
      ELSE FALSE

areSimilarImageUrls(url1, url2, b) ==
  IF url1 = url2 THEN Similar
  ELSE IF b = ASICS THEN Bool(areSimilarAsicsImageUrls(url1, url2))
  ELSE IF b = BOTTEGA_VENETA THEN areSimilarBottegaVenetaImageUrls(url1, url2)
  ELSE Bool(areSimilarGenericImageUrls(url1, url2))

getResolutionPriority(url) ==
  LET m == Feat(url).marks
  IN  IF "zoom" \in m THEN 5
      ELSE IF "1800" \in m THEN 4
      ELSE IF "1200" \in m THEN 3
      ELSE IF "900" \in m THEN 2
      ELSE IF "600" \in m THEN 1
      ELSE 0

(***************************************************************************)
(* filterSimilarUrls.                                                      *)
(***************************************************************************)

\* The inner loop with `processed.add(otherUrl)` left out: an absorbed URL
\* stays free to seed a group of its own.
RECURSIVE AbsorbWithoutMarking(_, _, _, _, _, _)
AbsorbWithoutMarking(url, us, b, k, processed, group) ==
  IF k > Len(us) THEN [threw |-> FALSE, processed |-> processed, group |-> group]
  ELSE LET otherUrl == us[k]
       IN  IF url = otherUrl \/ otherUrl \in processed
             THEN AbsorbWithoutMarking(url, us, b, k + 1, processed, group)
           ELSE LET sim == areSimilarImageUrls(url, otherUrl, b)
                IN  IF sim = InvalidUrl
                      THEN [threw |-> TRUE, processed |-> processed, group |-> group]
                    ELSE IF sim = Similar
                      THEN AbsorbWithoutMarking(url, us, b, k + 1, processed,
                                                Append(group, otherUrl))
                    ELSE AbsorbWithoutMarking(url, us, b, k + 1, processed, group)

\* The inner loop of filterSimilarUrls for one seed: scans urls from
\* position k on, with the processed set and the group built so far.
RECURSIVE Absorb(_, _, _, _, _, _)
Absorb(url, us, b, k, processed, group) ==
  IF k > Len(us) THEN [threw |-> FALSE, processed |-> processed, group |-> group]
  ELSE LET otherUrl == us[k]
       IN  IF url = otherUrl \/ otherUrl \in processed
             THEN Absorb(url, us, b, k + 1, processed, group)
           ELSE LET sim == areSimilarImageUrls(url, otherUrl, b)
                IN  IF sim = InvalidUrl
                      THEN [threw |-> TRUE, processed |-> processed, group |-> group]
                    ELSE IF sim = Similar
                      THEN Absorb(url, us, b, k + 1, processed \cup {otherUrl},
                                  Append(group, otherUrl))
                    ELSE Absorb(url, us, b, k + 1, processed, group)

\* The outer loop: groups holds the groups in the order they were stored.
RECURSIVE Group(_, _, _, _, _)
Group(us, b, k, processed, groups) ==
  IF k > Len(us) THEN [threw |-> FALSE, groups |-> groups]
  ELSE LET url == us[k]
       IN  IF url \in processed THEN Group(us, b, k + 1, processed, groups)
           ELSE CHOOSE v \in
                  {IF r.threw THEN [threw |-> TRUE, groups |-> groups]
                   ELSE Group(us, b, k + 1, r.processed, Append(groups, r.group)) :
                     r \in {Absorb(url, us, b, 1, processed \cup {url}, <<url>>)}} : TRUE

\* The group left as it was built, the sort left out.
UnsortedGroup(group) == group

\* Array.prototype.sort with (a, b) => priority(b) - priority(a): stable,
\* so equal priorities keep their order in the group.
SortByPriority(group) ==
  SelectSeq(group, LAMBDA u : getResolutionPriority(u) = 5) \o
  SelectSeq(group, LAMBDA u : getResolutionPriority(u) = 4) \o
  SelectSeq(group, LAMBDA u : getResolutionPriority(u) = 3) \o
  SelectSeq(group, LAMBDA u : getResolutionPriority(u) = 2) \o
  SelectSeq(group, LAMBDA u : getResolutionPriority(u) = 1) \o
  SelectSeq(group, LAMBDA u : getResolutionPriority(u) = 0)

\* `for (const key in groups)`: groups is a plain object keyed by the seed
\* string, and an object enumerates its canonical array-index keys first, in
\* ascending numeric order, then its other keys in insertion order.
RECURSIVE Ascending(_)
Ascending(gs) ==
  IF gs = {} THEN << >>
  ELSE LET g == CHOOSE x \in gs : \A y \in gs : Feat(x[1]).idx <= Feat(y[1]).idx
       IN  <<g>> \o Ascending(gs \ {g})

ForInOrder(groups) ==
  Ascending({groups[k] : k \in {j \in DOMAIN groups : Feat(groups[j][1]).idx >= 0}}) \o
  SelectSeq(groups, LAMBDA g : Feat(g[1]).idx < 0)

Representatives(groups) ==
  [k \in DOMAIN groups |-> SortByPriority(groups[k])[1]]

\* filterSimilarUrls(urls, brand): threw tells a TypeError escaped; groups
\* are the groups in enumeration order; result is the returned array.
filterSimilarUrls(us, b) ==
  IF Len(us) <= 1 THEN [threw |-> FALSE, groups |-> << >>, result |-> us]
  ELSE CHOOSE v \in
         {IF g.threw THEN [threw |-> TRUE, groups |-> << >>, result |-> << >>]
          ELSE [threw |-> FALSE,
                groups |-> ForInOrder(g.groups),
                result |-> Representatives(ForInOrder(g.groups))] :
            g \in {Group(us, b, 1, {}, << >>)}} : TRUE

(***************************************************************************)
(* Bounds.                                                                 *)
(***************************************************************************)
MaxUrls == 4        \* longest candidate sequence handed to filterSimilarUrls

\* The duplicate-free sequences over S of length at most n.
DistinctSeqs(S, n) ==
  {q \in UNION {[1..k -> S] : k \in 0..n} :
     \A a, b \in DOMAIN q : a # b => q[a] # q[b]}

Range(q) == {q[k] : k \in DOMAIN q}

\* No request is being served: the function under study is called directly.
NoPage == [wellFormed |-> FALSE, asics |-> FALSE, bottega |-> FALSE, code |-> "none"]
NoCode == [found |-> FALSE, code |-> << >>]
Pending == [kind |-> "pending", images |-> << >>]
NoClusters == [threw |-> FALSE, groups |-> << >>, result |-> << >>]
NoHtml == [ok |-> FALSE, found |-> << >>]
NoNet == [free |-> TRUE, flip |-> {}, pol |-> FALSE, html |-> NoHtml]
NoProbe == [kind |-> "none", status |-> 0,
            contentType |-> [present |-> FALSE, type |-> "", subtype |-> ""],
            body |-> << >>]

\* The list generateImageUrls builds for the brand's product code, as far as
\* the table holds it, in generation order.
GeneratedPool(b) ==
  IF b = ASICS THEN <<1, 2, 3, 4>>
  ELSE IF b = BOTTEGA_VENETA THEN <<10, 11>>
  ELSE <<6, 7>>

\* The image references a product page may hold: generated URLs of each
\* brand again, another host's image, a relative path and a bare number.
ScrapedPool == <<1, 5, 6, 8, 9, 11>>

\* The candidates a run can hand to filterSimilarUrls.
Candidates ==
  UNION {Range(GeneratedPool(b)) : b \in SupportedBrand} \cup Range(ScrapedPool)

(***************************************************************************)
(* SpecCluster: filterSimilarUrls on every duplicate-free candidate        *)
(* sequence (the one call site passes Array.from(new Set(allUrls))).       *)
(***************************************************************************)
InitCluster ==
  /\ pc = "cluster"
  /\ urls \in DistinctSeqs(Candidates, MaxUrls)
  /\ brand \in SupportedBrand
  /\ clusters = NoClusters
  /\ pageUrl = << >> /\ productCode = NoCode
  /\ page = NoPage /\ generatedUrls = << >> /\ scrapedUrls = << >>
  /\ i = 0 /\ inflight = {} /\ results = << >> /\ validUrls = << >>
  /\ net = NoNet /\ started = << >> /\ batches = << >>
  /\ probe = NoProbe /\ verdict = [threw |-> FALSE, value |-> FALSE] /\ response = Pending
  /\ doc = << >> /\ now = 0 /\ lastRequestTime = 0
  /\ searches = << >> /\ requests = << >>

FilterSimilar ==
  /\ pc = "cluster"
  /\ clusters' = filterSimilarUrls(urls, brand)
  /\ pc' = "clustered"
  /\ UNCHANGED <<doc, searchVars, pageUrl, productCode, page, brand, generatedUrls, scrapedUrls, urls, i, inflight,
                 results, validUrls, net, started, batches, probe, verdict,
                 response>>

NextCluster == FilterSimilar

SpecCluster == InitCluster /\ [][NextCluster]_vars

\* Position of a candidate in the input.
Pos(u) == CHOOSE k \in DOMAIN urls : urls[k] = u

\* The clusters of a finished run: an input of at most one URL is returned
\* as it is, each URL its own cluster.
Clusters ==
  IF Len(urls) <= 1 THEN [k \in DOMAIN urls |-> <<urls[k]>>] ELSE clusters.groups

\* C4: for every duplicate-free input the clusters partition the input:
\* clustering completes, every input URL is a member of exactly one cluster,
\* every cluster member and every representative is an input URL.
C4_ClustersPartitionInput ==
  pc = "clustered" =>
    /\ ~clusters.threw
    /\ \A u \in Range(urls) :
         Cardinality({k \in DOMAIN Clusters : u \in Range(Clusters[k])}) = 1
    /\ \A k \in DOMAIN Clusters :
         /\ Range(Clusters[k]) \subseteq Range(urls)
         /\ Len(Clusters[k]) = Cardinality(Range(Clusters[k]))
    /\ Range(clusters.result) \subseteq Range(urls)

\* The seeds of a finished run, in the order the input lists them.
Seeds == SelectSeq(urls, LAMBDA u : \E k \in DOMAIN Clusters : Clusters[k][1] = u)

\* C5: clustering is greedy in input order: every URL is in the cluster of
\* the earliest seed it is similar to, no two seeds are similar, and the
\* representatives come in the order of their seeds in the input.
C5_GreedyInInputOrder ==
  (pc = "clustered" /\ ~clusters.threw) =>
    /\ \A k \in DOMAIN Clusters : \A u \in Range(Clusters[k]) :
         /\ areSimilarImageUrls(Clusters[k][1], u, brand) = Similar
         /\ \A j \in DOMAIN Clusters :
              (Pos(Clusters[j][1]) < Pos(Clusters[k][1]))
                => areSimilarImageUrls(Clusters[j][1], u, brand) # Similar
    /\ \A j, k \in DOMAIN Clusters :
         j # k => areSimilarImageUrls(Clusters[j][1], Clusters[k][1], brand) # Similar
    /\ Len(clusters.result) = Len(Seeds)
    /\ \A k \in DOMAIN Seeds :
         \E j \in DOMAIN Clusters :
           Clusters[j][1] = Seeds[k] /\ clusters.result[k] \in Range(Clusters[j])

\* C6: the representative of a cluster has the highest resolution priority
\* of the cluster and is, among the members of that priority, the first in
\* input order; a cluster with a zoom, a 1800, a 900 and a 600 member is
\* represented by the zoom member.
C6_RepresentativeIsBest ==
  (pc = "clustered" /\ ~clusters.threw /\ Len(urls) > 1) =>
    /\ Len(clusters.result) = Len(clusters.groups)
    /\ \A k \in DOMAIN clusters.groups :
         LET g == clusters.groups[k]
             rep == clusters.result[k]
         IN  /\ rep \in Range(g)
             /\ \A u \in Range(g) :
                  /\ getResolutionPriority(u) <= getResolutionPriority(rep)
                  /\ (getResolutionPriority(u) = getResolutionPriority(rep))
                       => Pos(rep) <= Pos(u)
             /\ ({5, 4, 2, 1} \subseteq {getResolutionPriority(u) : u \in Range(g)})
                  => "zoom" \in Feat(rep).marks

\* Witness of C6: a cluster of four holding a zoom, a 1800, a 900 and a 600
\* URL, the zoom URL last in the input, and represented by it.
C6_Witness ==
  /\ pc = "clustered" /\ ~clusters.threw
  /\ \E k \in DOMAIN clusters.groups :
       /\ {getResolutionPriority(u) : u \in Range(clusters.groups[k])} = {5, 4, 2, 1}
       /\ getResolutionPriority(clusters.groups[k][1]) = 1
       /\ getResolutionPriority(clusters.result[k]) = 5

\* C27: no two representatives filterSimilarUrls returns are similar under
\* the brand's predicate, and clustering the representatives again gives
\* the same list.
C27_RepresentativesPairwiseDissimilar ==
  (pc = "clustered" /\ ~clusters.threw) =>
    /\ \A j, k \in DOMAIN clusters.result :
         j # k => areSimilarImageUrls(clusters.result[j], clusters.result[k], brand) # Similar
    /\ filterSimilarUrls(clusters.result, brand).result = clusters.result

(***************************************************************************)
(* checkImageExists.  A probe is what the try block meets: new URL(url)    *)
(* failing, axios.get failing without a response, or a response with its   *)
(* status, Content-Type header and body bytes.                             *)
(***************************************************************************)
MaxPad == 2         \* most bytes that follow the first four of a body

NoHeader == [present |-> FALSE, type |-> "", subtype |-> ""]
Header(t, s) == [present |-> TRUE, type |-> t, subtype |-> s]

ContentTypes ==
  {NoHeader, Header("image", "png"), Header("image", "jpeg"),
   Header("text", "html"), Header("application", "octet-stream")}

JPEG == <<255, 216, 255>>
PNG == <<137, 80, 78, 71>>
GIF8 == <<71, 73, 70, 56>>

BodyHeads ==
  {<< >>, JPEG, PNG, GIF8, <<255, 216, 0>>, <<137, 80, 78, 0>>,
   <<71, 73, 70, 57>>, <<60, 104, 116, 109>>}

RECURSIVE Zeros(_)
Zeros(n) == IF n = 0 THEN << >> ELSE <<0>> \o Zeros(n - 1)

Bodies == {h \o Zeros(n) : h \in BodyHeads, n \in 0..(MaxPad + 1)}

Statuses == {200, 204, 302, 399, 400, 404, 500}

Responses ==
  [kind : {"response"}, status : Statuses, contentType : ContentTypes, body : Bodies]

NoResponse(k) == [kind |-> k, status |-> 0, contentType |-> NoHeader, body |-> << >>]

Failures == {NoResponse("invalidUrl"), NoResponse("networkError"), NoResponse("timeout")}

Probes == Responses \cup Failures

\* What a call gives: a boolean value, or an exception.
Returns(b) == [threw |-> FALSE, value |-> b]
Throws == [threw |-> TRUE, value |-> FALSE]

\* data[k] of a Buffer: undefined (here -1) past the end.
Byte(data, k) == IF k + 1 <= Len(data) THEN data[k + 1] ELSE -1

\* The try block of checkImageExists: new URL or axios.get throws
\* (validateStatus rejects a status >= 400), or the block returns.
CheckBody(p) ==
  IF p.kind # "response" THEN Throws
  ELSE IF ~(p.status < 400) THEN Throws
  ELSE LET isImage == p.contentType.present /\ p.contentType.type = "image"
           data == p.body
       IN  IF ~isImage /\ Len(data) > 4
             THEN IF Byte(data, 0) = 255 /\ Byte(data, 1) = 216 /\ Byte(data, 2) = 255
                    THEN Returns(TRUE)
                  ELSE IF /\ Byte(data, 0) = 137 /\ Byte(data, 1) = 80
                          /\ Byte(data, 2) = 78 /\ Byte(data, 3) = 71
                    THEN Returns(TRUE)
                  ELSE IF /\ Byte(data, 0) = 71 /\ Byte(data, 1) = 73
                          /\ Byte(data, 2) = 70 /\ Byte(data, 3) = 56
                    THEN Returns(TRUE)
                  ELSE Returns(isImage)
           ELSE Returns(isImage)

\* checkImageExists without its catch block.
CheckWithoutCatch(p) == CheckBody(p)

\* The catch block: any exception becomes false.
checkImageExists(p) == IF CheckBody(p).threw THEN Returns(FALSE) ELSE CheckBody(p)

(***************************************************************************)
(* SpecCheck: checkImageExists on every probe.                             *)
(***************************************************************************)
InitCheck ==
  /\ pc = "check"
  /\ probe \in Probes
  /\ verdict = Returns(FALSE)
  /\ urls = << >> /\ brand = UNKNOWN /\ clusters = NoClusters
  /\ pageUrl = << >> /\ productCode = NoCode
  /\ page = NoPage /\ generatedUrls = << >> /\ scrapedUrls = << >>
  /\ i = 0 /\ inflight = {} /\ results = << >> /\ validUrls = << >>
  /\ net = NoNet /\ started = << >> /\ batches = << >>
  /\ response = Pending
  /\ doc = << >> /\ now = 0 /\ lastRequestTime = 0
  /\ searches = << >> /\ requests = << >>

CheckImageExists ==
  /\ pc = "check"
  /\ verdict' = checkImageExists(probe)
  /\ pc' = "checked"
  /\ UNCHANGED <<doc, searchVars, pageUrl, productCode, page, brand, generatedUrls, scrapedUrls, urls, clusters, i,
                 inflight, results, validUrls, net, started, batches, probe,
                 response>>

NextCheck == CheckImageExists

SpecCheck == InitCheck /\ [][NextCheck]_vars

StartsWith(data, sig) == Len(data) >= Len(sig) /\ SubSeq(data, 1, Len(sig)) = sig

HasSignature(data) ==
  StartsWith(data, JPEG) \/ StartsWith(data, PNG) \/ StartsWith(data, GIF8)

\* C10: for a response with status < 400 the verdict is true exactly when
\* the Content-Type starts with image/ or the body starts with the JPEG, PNG
\* or GIF8 signature, whatever the length of the body.
C10_ValidIffImageTypeOrSignature ==
  (pc = "checked" /\ probe.kind = "response" /\ probe.status < 400) =>
    ((~verdict.threw /\ verdict.value) <=>
       \/ (probe.contentType.present /\ probe.contentType.type = "image")
       \/ HasSignature(probe.body))

(***************************************************************************)
(* checkBatchImageUrls.                                                    *)
(***************************************************************************)
MAX_PARALLEL_REQUESTS == 5
MaxBatchUrls == 12  \* longest sequence handed to checkBatchImageUrls alone
MaxFlip == 2        \* URLs the network treats unlike the others

Min(a, b) == IF a <= b THEN a ELSE b

\* Outcomes a reachable image gives, and outcomes of a URL that is none.
GoodProbes ==
  << [kind |-> "response", status |-> 200, contentType |-> Header("image", "jpeg"),
      body |-> JPEG \o <<0, 0>>],
     [kind |-> "response", status |-> 200, contentType |-> NoHeader,
      body |-> PNG \o <<0>>] >>

BadProbes ==
  << [kind |-> "response", status |-> 404, contentType |-> Header("text", "html"),
      body |-> <<60, 104, 116, 109>>],
     NoResponse("timeout"),
     NoResponse("networkError"),
     [kind |-> "response", status |-> 200, contentType |-> Header("text", "html"),
      body |-> <<60, 104, 116, 109, 0>>] >>

GoodProbe(u) == GoodProbes[(u % Len(GoodProbes)) + 1]
BadProbe(u) == BadProbes[(u % Len(BadProbes)) + 1]

\* The request carries no timeout: where the network would let it time
\* out, it never settles.
ProbesWithoutTimeout(u) ==
  IF ~Feat(u).abs THEN {NoResponse("invalidUrl")}
  ELSE IF net.free THEN {GoodProbe(u), BadProbe(u)} \ {NoResponse("timeout")}
  ELSE IF (u \in net.flip) # net.pol THEN {BadProbe(u)} \ {NoResponse("timeout")}
  ELSE {GoodProbe(u)}

\* What the try block of checkImageExists(url) can meet under net: new URL
\* throws on a string that is no absolute URL; otherwise the network answers,
\* as net fixes it or, when net leaves it free, either way.
ProbeSet(u) ==
  IF ~Feat(u).abs THEN {NoResponse("invalidUrl")}
  ELSE IF net.free THEN {GoodProbe(u), BadProbe(u)}
  ELSE IF (u \in net.flip) # net.pol THEN {BadProbe(u)}
  ELSE {GoodProbe(u)}

\* The slice taken one element too long.
SliceOneTooLong(us, i0) ==
  [k \in 1..(Min(i0 + MAX_PARALLEL_REQUESTS + 1, Len(us)) - i0) |-> i0 + k]

\* urls.slice(i, i + MAX_PARALLEL_REQUESTS), as positions of urls.
BatchAt(us, i0) ==
  [k \in 1..(Min(i0 + MAX_PARALLEL_REQUESTS, Len(us)) - i0) |-> i0 + k]

\* batch.map(async ...) starts every check of the batch at once.
StartBatch(us, i0) ==
  /\ i' = i0
  /\ inflight' = inflight \cup Range(BatchAt(us, i0))
  /\ results' = << >>
  /\ started' = started \o BatchAt(us, i0)
  /\ batches' = Append(batches, BatchAt(us, i0))
  /\ pc' = "await"

\* The promises of the batch not awaited.
NoBarrier == TRUE

\* await Promise.all(...): resumes when every promise of the batch settled.
BatchSettled == inflight = {}

\* The valid URLs of the batch pushed in another order than the batch's, as
\* pushing from inside the concurrent callbacks could do.
ValidOfOutOfOrder(us, batch, res) ==
  LET ok == SelectSeq(batch, LAMBDA pos : pos \in DOMAIN res /\ res[pos])
  IN  [k \in DOMAIN ok |-> us[ok[Len(ok) + 1 - k]]]

\* results.forEach: the valid URLs of the batch, in batch order.
ValidOf(us, batch, res) ==
  LET ok == SelectSeq(batch, LAMBDA pos : pos \in DOMAIN res /\ res[pos])
  IN  [k \in DOMAIN ok |-> us[ok[k]]]

\* The alt text numbered from 0.
ToImagesFromZero(valid, code) ==
  [k \in DOMAIN valid |->
     [src |-> valid[k], width |-> "640", height |-> "480",
      alt |-> [index |-> k - 1, productCode |-> code]]]

\* getImagesFromUrl, step 5, and the endpoint's `return { images }`.
ToImages(valid, code) ==
  [k \in DOMAIN valid |->
     [src |-> valid[k], width |-> "640", height |-> "480",
      alt |-> [index |-> k, productCode |-> code]]]

\* How a call of getImagesFromUrl ends, and what the endpoint's caller gets.
Ok(images) == [kind |-> "ok", images |-> images]
Rejected == [kind |-> "rejected", images |-> << >>]
Failed(msg) == [kind |-> "error", images |-> << >>, message |-> msg]

\* A catch block that rethrows.
RethrowOnError == Rejected

\* The catch block of getImagesFromUrl: log and return [].
OnError == Ok(<< >>)

\* The endpoint's try/catch around `await getImagesFromUrl(input.url)`.
Respond(outcome) ==
  IF outcome.kind = "rejected" THEN Failed("failed to get the images") ELSE outcome

Standalone == page = NoPage

\* One promise of the batch settles.  checkImageExists resolving gives the
\* slot its value; a rejection would reject Promise.all and with it
\* checkBatchImageUrls (and, in the pipeline, reach getImagesFromUrl's catch).
Settle(pos) ==
  /\ pc = "await"
  /\ pos \in inflight
  /\ \E p \in ProbeSet(urls[pos]) :
       LET v == checkImageExists(p)
       IN  IF v.threw
             THEN /\ pc' = IF Standalone THEN "rejected" ELSE "done"
                  /\ response' = IF Standalone THEN response ELSE Respond(OnError)
                  /\ inflight' = inflight \ {pos}
                  /\ UNCHANGED results
             ELSE /\ results' = (pos :> v.value) @@ results
                  /\ inflight' = inflight \ {pos}
                  /\ UNCHANGED <<pc, response>>
  /\ UNCHANGED <<doc, searchVars, pageUrl, productCode, page, brand, generatedUrls, scrapedUrls, urls, clusters, i,
                 validUrls, net, started, batches, probe, verdict>>

\* The loop body after the await, up to the next await or the return.
Resume ==
  /\ pc = "await"
  /\ BatchSettled
  /\ validUrls' = validUrls \o ValidOf(urls, BatchAt(urls, i), results)
  /\ IF i + MAX_PARALLEL_REQUESTS < Len(urls)
       THEN /\ StartBatch(urls, i + MAX_PARALLEL_REQUESTS)
            /\ UNCHANGED response
       ELSE /\ i' = i + MAX_PARALLEL_REQUESTS
            /\ pc' = IF Standalone THEN "returned" ELSE "done"
            /\ response' = IF Standalone THEN response
                           ELSE Respond(Ok(ToImages(validUrls', page.code)))
            /\ UNCHANGED <<inflight, results, started, batches>>
  /\ UNCHANGED <<doc, searchVars, pageUrl, productCode, page, brand, generatedUrls, scrapedUrls, urls, clusters, net,
                 probe, verdict>>

(***************************************************************************)
(* SpecBatch: checkBatchImageUrls on n distinct URLs, the network fixed.   *)
(***************************************************************************)
InitBatch ==
  /\ pc = "call"
  /\ \E n \in 0..MaxBatchUrls :
       /\ urls = [k \in 1..n |-> k]
       /\ net \in [free : {FALSE},
                   flip : {f \in SUBSET (1..n) : Cardinality(f) <= MaxFlip},
                   pol : BOOLEAN,
                   html : {NoHtml}]
  /\ brand = UNKNOWN /\ clusters = NoClusters
  /\ pageUrl = << >> /\ productCode = NoCode
  /\ page = NoPage /\ generatedUrls = << >> /\ scrapedUrls = << >>
  /\ i = 0 /\ inflight = {} /\ results = << >> /\ validUrls = << >>
  /\ started = << >> /\ batches = << >>
  /\ probe = NoProbe /\ verdict = Returns(FALSE) /\ response = Pending
  /\ doc = << >> /\ now = 0 /\ lastRequestTime = 0
  /\ searches = << >> /\ requests = << >>

CallBatch ==
  /\ pc = "call"
  /\ IF Len(urls) > 0
       THEN StartBatch(urls, 0)
       ELSE /\ pc' = "returned"
            /\ UNCHANGED <<i, inflight, results, started, batches>>
  /\ UNCHANGED <<doc, searchVars, pageUrl, productCode, page, brand, generatedUrls, scrapedUrls, urls, clusters,
                 validUrls, net, probe, verdict, response>>

NextBatch ==
  \/ CallBatch
  \/ \E pos \in 1..Len(urls) : Settle(pos)
  \/ Resume

SpecBatch == InitBatch /\ [][NextBatch]_vars

Ceil5(n) == (n + 4) \div 5

Sizes == [b \in DOMAIN batches |-> Len(batches[b])]

\* C7: n URLs are checked in ceil(n/5) batches of 5 (the last may be
\* shorter; 12 URLs give 5, 5, 2), every URL exactly once, in input order,
\* whatever the other checks gave: all batches run, none is repeated.
C7_BatchesOfFiveEachUrlOnce ==
  /\ started = [k \in 1..Len(started) |-> k]
  /\ \A b \in DOMAIN batches :
       /\ Len(batches[b]) = IF 5 * b <= Len(urls) THEN 5 ELSE Len(urls) - 5 * (b - 1)
       /\ Len(batches[b]) >= 1
  /\ pc = "returned" =>
       /\ Len(batches) = Ceil5(Len(urls))
       /\ Len(started) = Len(urls)
       /\ (Len(urls) = 12 => Sizes = <<5, 5, 2>>)

\* Witness of C7: 12 URLs done in batches of 5, 5 and 2, with a valid URL
\* in the first batch and a failed one beside it.
C7_Witness ==
  /\ pc = "returned" /\ Len(urls) = 12 /\ Sizes = <<5, 5, 2>>
  /\ validUrls # << >> /\ validUrls[1] <= 5
  /\ \E u \in 1..5 : u \notin Range(validUrls)

\* C8: at most 5 checks are in flight; the checks in flight belong to the
\* batch issued last, so a batch starts only when the previous one has
\* settled; every check in flight can settle on its own, and while one is
\* in flight the loop does not go on.
C8_BoundedParallelismBarrier ==
  /\ Cardinality(inflight) <= 5
  /\ inflight # {} =>
       /\ batches # << >>
       /\ inflight \subseteq Range(batches[Len(batches)])
       /\ Len(started) <= i + 5
       /\ \A pos \in inflight : ENABLED Settle(pos)
       /\ ~ENABLED Resume

\* Witness of C8: in the second batch its last check has settled while its
\* first is still in flight.
C8_Witness ==
  /\ Len(batches) = 2 /\ Len(batches[2]) = 5
  /\ batches[2][1] \in inflight
  /\ batches[2][5] \in DOMAIN results

IsFailure(p) == p.kind # "response" \/ p.status >= 400

TheProbe(u) == CHOOSE p \in ProbeSet(u) : TRUE

\* C9: a check that meets a network error, a timeout, a status >= 400 or an
\* unparsable URL gives false and never throws: checkBatchImageUrls is never
\* rejected, the URL is left out, and every other URL is still checked.
C9_FailedCheckIsFalseNotThrown ==
  /\ pc # "rejected"
  /\ \A pos \in DOMAIN results : IsFailure(TheProbe(urls[pos])) => ~results[pos]
  /\ \A k \in DOMAIN validUrls : ~IsFailure(TheProbe(validUrls[k]))
  /\ pc = "returned" => Len(started) = Len(urls)

\* Witness of C9: a run over two batches in which the first URL failed
\* (error status, timeout, network error or unparsable) and URLs of both
\* batches were found valid.
C9_Witness ==
  /\ pc = "returned" /\ Len(urls) > 5
  /\ IsFailure(TheProbe(urls[1]))
  /\ \E k \in DOMAIN validUrls : validUrls[k] <= 5
  /\ \E k \in DOMAIN validUrls : validUrls[k] > 5

\* C16: checkBatchImageUrls returns the input URLs whose check gave valid,
\* in input order, in every order the checks of a batch complete in.
C16_ValidUrlsInInputOrder ==
  /\ validUrls = SelectSeq(SubSeq(urls, 1, Min(i, Len(urls))),
                           LAMBDA u : checkImageExists(TheProbe(u)).value)
  /\ pc = "returned" =>
       validUrls = SelectSeq(urls, LAMBDA u : checkImageExists(TheProbe(u)).value)

\* Witness of C16: the first batch gave two valid URLs around an invalid
\* one, and in the second batch the last check has completed, valid, while
\* the first is still in flight.
C16_Witness ==
  /\ pc = "await" /\ Len(batches) = 2 /\ Len(batches[2]) >= 2
  /\ \E a, b, c \in 1..5 :
       /\ a < b /\ b < c
       /\ urls[a] \in Range(validUrls) /\ urls[c] \in Range(validUrls)
       /\ urls[b] \notin Range(validUrls)
  /\ batches[2][1] \in inflight
  /\ batches[2][Len(batches[2])] \in DOMAIN results
  /\ results[batches[2][Len(batches[2])]]

(***************************************************************************)
(* The getImages endpoint and getImagesFromUrl.                            *)
(***************************************************************************)
MaxGen == 2         \* generated candidates kept of the generator's list
MaxScraped == 2     \* candidates the page yields

\* A page URL as the endpoint and the service read it: whether zod's
\* z.string().url() accepts it, which brand markers its lower-cased text
\* contains, and the product code extractProductCode finds ("" for null).
detectBrand(url) ==
  IF url.asics THEN ASICS
  ELSE IF url.bottega THEN BOTTEGA_VENETA
  ELSE UNKNOWN

CodeOf(b) ==
  IF b = ASICS THEN "1203A474_002" ELSE IF b = BOTTEGA_VENETA THEN "ABC123" ELSE "AB12"

Pages ==
  {[wellFormed |-> FALSE, asics |-> FALSE, bottega |-> FALSE, code |-> ""]} \cup
  {[wellFormed |-> TRUE, asics |-> a, bottega |-> b, code |-> c] :
     a \in BOOLEAN, b \in BOOLEAN, c \in {"", "1203A474_002", "ABC123", "AB12"}}

\* A dedup that keeps the last occurrence of a string, not the first.
RECURSIVE DedupKeepLast(_)
DedupKeepLast(xs) ==
  IF xs = << >> THEN << >>
  ELSE CHOOSE v \in {IF Head(xs) \in Range(r) THEN r ELSE <<Head(xs)>> \o r :
                      r \in {DedupKeepLast(Tail(xs))}} : TRUE

\* Array.from(new Set(xs)): first occurrences, in order.
RECURSIVE Dedup(_)
Dedup(xs) ==
  IF xs = << >> THEN << >>
  ELSE LET x == xs[Len(xs)]
       IN  CHOOSE v \in {IF x \in Range(r) THEN r ELSE Append(r, x) :
                           r \in {Dedup(SubSeq(xs, 1, Len(xs) - 1))}} : TRUE

\* The page parsed although the fetch failed.
ScrapeIgnoringFailure(html) == html.found

\* scrapeImagesFromPage: the URLs the extractor collected, or [] when the
\* fetch or the extraction threw; html.found is what the answer's body
\* holds, an error page's body included.
scrapeImagesFromPage(html) == IF html.ok THEN html.found ELSE << >>

InitPipeline ==
  /\ pc = "request"
  /\ pageUrl = << >> /\ productCode = NoCode
  /\ page \in {p \in Pages : p.code \in {"", CodeOf(detectBrand(p))}}
  /\ net \in [free : {TRUE}, flip : {{}}, pol : {FALSE},
              html : [ok : BOOLEAN,
                      found : DistinctSeqs(Range(ScrapedPool), MaxScraped)]]
  /\ brand = UNKNOWN /\ clusters = NoClusters
  /\ generatedUrls = << >> /\ scrapedUrls = << >> /\ urls = << >>
  /\ i = 0 /\ inflight = {} /\ results = << >> /\ validUrls = << >>
  /\ started = << >> /\ batches = << >>
  /\ probe = NoProbe /\ verdict = Returns(FALSE) /\ response = Pending
  /\ doc = << >> /\ now = 0 /\ lastRequestTime = 0
  /\ searches = << >> /\ requests = << >>

\* The input fails z.string().url(): the procedure is not run.
RejectInput ==
  /\ pc = "request"
  /\ ~page.wellFormed
  /\ response' = Failed("invalid URL")
  /\ pc' = "done"
  /\ UNCHANGED <<doc, searchVars, pageUrl, productCode, page, brand, generatedUrls, scrapedUrls, urls, clusters, i,
                 inflight, results, validUrls, net, started, batches, probe,
                 verdict>>

\* getImagesFromUrl up to `if (!productCode) return []`.
NoProductCode ==
  /\ pc = "request"
  /\ page.wellFormed
  /\ page.code = ""
  /\ brand' = detectBrand(page)
  /\ response' = Respond(Ok(<< >>))
  /\ pc' = "done"
  /\ UNCHANGED <<doc, searchVars, pageUrl, productCode, page, generatedUrls, scrapedUrls, urls, clusters, i, inflight,
                 results, validUrls, net, started, batches, probe, verdict>>

\* getImagesFromUrl up to `await scrapeImagesFromPage(url, brand)`.
Generate ==
  /\ pc = "request"
  /\ page.wellFormed
  /\ page.code # ""
  /\ brand' = detectBrand(page)
  /\ \E g \in DistinctSeqs(Range(GeneratedPool(detectBrand(page))), MaxGen) :
       /\ g # << >>
       /\ generatedUrls' = g
  /\ pc' = "fetch"
  /\ UNCHANGED <<doc, searchVars, pageUrl, productCode, page, scrapedUrls, urls, clusters, i, inflight, results,
                 validUrls, net, started, batches, probe, verdict, response>>

\* From the scrape's result to the first await inside checkBatchImageUrls,
\* or to the end when clustering threw or nothing is left to check.
PageFetched ==
  /\ pc = "fetch"
  /\ scrapedUrls' = scrapeImagesFromPage(net.html)
  /\ \E uniqueUrls \in {Dedup(generatedUrls \o scrapeImagesFromPage(net.html))} :
     \E c \in {filterSimilarUrls(uniqueUrls, brand)} :
         /\ clusters' = c
         /\ IF c.threw
              THEN /\ response' = Respond(OnError)
                   /\ pc' = "done"
                   /\ UNCHANGED <<urls, i, inflight, results, started, batches>>
              ELSE /\ urls' = c.result
                   /\ IF Len(c.result) > 0
                        THEN /\ StartBatch(c.result, 0)
                             /\ UNCHANGED response
                        ELSE /\ response' = Respond(Ok(<< >>))
                             /\ pc' = "done"
                             /\ UNCHANGED <<i, inflight, results, started, batches>>
  /\ UNCHANGED <<doc, searchVars, pageUrl, productCode, page, brand, generatedUrls, validUrls, net, probe, verdict>>

Next ==
  \/ RejectInput
  \/ NoProductCode
  \/ Generate
  \/ PageFetched
  \/ \E pos \in 1..Len(urls) : Settle(pos)
  \/ Resume

Spec == InitPipeline /\ [][Next]_vars

Srcs == [k \in DOMAIN response.images |-> response.images[k].src]

\* C1: the src values of the returned images are pairwise distinct.
C1_NoDuplicateSrc ==
  (pc = "done" /\ response.kind = "ok") =>
    \A a, b \in DOMAIN Srcs : a # b => Srcs[a] # Srcs[b]

\* Witness of C1: two images returned in a run where a generated URL was
\* scraped again and a cluster of several candidates was collapsed.
C1_Witness ==
  /\ pc = "done" /\ response.kind = "ok" /\ Len(response.images) >= 2
  /\ Range(generatedUrls) \cap Range(scrapedUrls) # {}
  /\ Len(urls) < Len(Dedup(generatedUrls \o scrapedUrls))

\* C2: with no product code the page is still scraped, and the scraped
\* candidates that survive clustering and validation are returned.
C2_ScrapedOnlyWhenNoCode ==
  (pc = "done" /\ page.wellFormed /\ page.code = "") =>
    LET expected == filterSimilarUrls(Dedup(scrapeImagesFromPage(net.html)),
                                      detectBrand(page))
    IN  ~expected.threw =>
          /\ scrapedUrls = scrapeImagesFromPage(net.html)
          /\ urls = expected.result
          /\ Len(started) = Len(urls)
          /\ response = Ok(ToImages(validUrls, ""))

\* C3: for a well-formed URL the call ends with a list, never an error,
\* whatever failed inside; with no product code and an empty page the list
\* is empty; the endpoint reports an error only for a malformed URL.
C3_ListUnlessMalformed ==
  /\ pc # "rejected"
  /\ pc = "done" =>
       /\ response.kind \in {"ok", "error"}
       /\ response.kind = "error" <=> ~page.wellFormed
       /\ (page.wellFormed /\ page.code = "" /\ scrapeImagesFromPage(net.html) = << >>)
            => response = Ok(<< >>)

\* Witness of C3: clustering threw on a well-formed request and the caller
\* got the empty list.
C3_Witness ==
  /\ pc = "done" /\ page.wellFormed /\ clusters.threw
  /\ response = Ok(<< >>)

\* C14: when the page fetch fails, the scrape gives no candidate and raises
\* nothing, and the run clusters and validates the generated candidates:
\* its result is what the generated candidates alone give.
C14_FetchFailureLeavesGenerated ==
  (page.wellFormed /\ page.code # "" /\ ~net.html.ok /\ pc \in {"await", "done"}) =>
    LET alone == filterSimilarUrls(Dedup(generatedUrls), brand)
    IN  /\ scrapedUrls = << >>
        /\ clusters = alone
        /\ ~alone.threw
        /\ urls = alone.result
        /\ pc = "done" =>
             /\ Len(started) = Len(urls)
             /\ response = Ok(ToImages(validUrls, page.code))

\* Witness of C14: the fetch failed on a page that holds image references,
\* and a generated candidate was returned.
C14_Witness ==
  /\ pc = "done" /\ page.wellFormed
  /\ ~net.html.ok /\ net.html.found # << >>
  /\ response.kind = "ok" /\ response.images # << >>

\* C15: the images are the URLs the validator confirmed in this run, in its
\* output order: image k has the k-th confirmed URL as src, k in its alt
\* text, width "640" and height "480"; every src was checked in this run
\* and, for the batch checked last, is a URL whose check gave valid.
C15_ImagesAreConfirmedUrls ==
  /\ Range(validUrls) \subseteq {urls[pos] : pos \in Range(started)}
  /\ (pc = "done" /\ response.kind = "ok") =>
       /\ Len(response.images) \in {0, Len(validUrls)}
       /\ Range(Srcs) \subseteq {urls[pos] : pos \in Range(started)}
       /\ \A k \in DOMAIN response.images :
            /\ response.images[k].src = validUrls[k]
            /\ response.images[k].alt = [index |-> k, productCode |-> page.code]
            /\ response.images[k].width = "640"
            /\ response.images[k].height = "480"
       /\ (response.images # << >>) =>
            /\ Len(response.images) = Len(validUrls)
            /\ \A pos \in DOMAIN results :
                 results[pos] <=> urls[pos] \in Range(Srcs)

\* Witness of C15: two images returned, and a checked URL left out.
C15_Witness ==
  /\ pc = "done" /\ response.kind = "ok" /\ Len(response.images) >= 2
  /\ \E pos \in DOMAIN results : ~results[pos]

(***************************************************************************)
(* Strings as sequences of characters, and the pieces of regular           *)
(* expression matching that extractProductCode relies on.                  *)
(***************************************************************************)
Uppers ==
  <<"A", "B", "C", "D", "E", "F", "G", "H", "I", "J", "K", "L", "M", "N",
    "O", "P", "Q", "R", "S", "T", "U", "V", "W", "X", "Y", "Z">>
Lowers ==
  <<"a", "b", "c", "d", "e", "f", "g", "h", "i", "j", "k", "l", "m", "n",
    "o", "p", "q", "r", "s", "t", "u", "v", "w", "x", "y", "z">>
Digits == {"0", "1", "2", "3", "4", "5", "6", "7", "8", "9"}

\* String.prototype.toLowerCase, one character and a whole string.
LowerChar(c) ==
  IF \E k \in DOMAIN Uppers : Uppers[k] = c
    THEN Lowers[CHOOSE k \in DOMAIN Uppers : Uppers[k] = c]
    ELSE c

toLowerCase(s) == [k \in DOMAIN s |-> LowerChar(s[k])]

\* String.prototype.includes.
includes(s, lit) ==
  \E k \in 1..(Len(s) - Len(lit) + 1) : SubSeq(s, k, k + Len(lit) - 1) = lit

\* The character classes of the patterns, all under the i flag:
\* [0-9A-Z], [a-zA-Z0-9-], [a-zA-Z0-9-_], [0-9] and [A-Z].
Letters == Range(Uppers) \cup Range(Lowers)

InClass(c, cls) ==
  LET digit == c \in Digits
      letter == c \in Letters
  IN  IF cls = "digit" THEN digit
      ELSE IF cls = "letter" THEN letter
      ELSE IF cls = "alnum" THEN digit \/ letter
      ELSE IF cls = "alnumHyphen" THEN digit \/ letter \/ c = "-"
      ELSE digit \/ letter \/ c = "-" \/ c = "_"

\* A literal of a pattern (given in lower case) matches s at position k,
\* letters compared without case.
LitAt(s, k, lit) ==
  /\ k >= 1
  /\ k + Len(lit) - 1 <= Len(s)
  /\ toLowerCase(SubSeq(s, k, k + Len(lit) - 1)) = lit

\* A greedy [class]+ from position k: the position of the last character it
\* takes, k - 1 when it takes none.
RECURSIVE RunEnd(_, _, _)
RunEnd(s, k, cls) ==
  IF k \in DOMAIN s /\ InClass(s[k], cls) THEN RunEnd(s, k + 1, cls) ELSE k - 1

\* What String.prototype.match gives: null, or the groups of the match.
NoMatch == [m |-> FALSE, g1 |-> << >>, has2 |-> FALSE, g2 |-> << >>]
Matched(g1, has2, g2) == [m |-> TRUE, g1 |-> g1, has2 |-> has2, g2 |-> g2]

\* The leftmost position of a set of match positions.
Leftmost(ks) == CHOOSE k \in ks : \A j \in ks : k <= j

\* String.prototype.replace(/-/g, '_').
HyphensToUnderscores(s) == [k \in DOMAIN s |-> IF s[k] = "-" THEN "_" ELSE s[k]]

(***************************************************************************)
(* The literals of detectBrand and of the extraction patterns, lower case.  *)
(***************************************************************************)
AsicsCom == <<"a", "s", "i", "c", "s", ".", "c", "o", "m">>
AsicsSlash == <<"a", "s", "i", "c", "s", "/">>
BottegaVenetaCom == <<"b", "o", "t", "t", "e", "g", "a", "v", "e", "n", "e", "t", "a", ".", "c", "o", "m">>
BottegaVenetaSlash == <<"b", "o", "t", "t", "e", "g", "a", "v", "e", "n", "e", "t", "a", "/">>
Hyphen == <<"-">>
Underscore == <<"_">>
DotHtml == <<".", "h", "t", "m", "l">>
SlashP == <<"/", "p", "/">>
AnaPrefix == <<"a", "n", "a", "_">>
SlashProductDetail == <<"/", "p", "r", "o", "d", "u", "c", "t", "-", "d", "e", "t", "a", "i", "l", "/">>
CodeParam == <<"c", "o", "d", "e", "=">>
SlashProducts == <<"/", "p", "r", "o", "d", "u", "c", "t", "s", "/">>
SlashProduct == <<"/", "p", "r", "o", "d", "u", "c", "t", "/">>
ProductUnderscoreIdParam == <<"p", "r", "o", "d", "u", "c", "t", "_", "i", "d", "=">>
ProductIdParam == <<"p", "r", "o", "d", "u", "c", "t", "i", "d", "=">>
SkuParam == <<"s", "k", "u", "=">>

(***************************************************************************)
(* detectBrand on the characters of a URL.                                 *)
(***************************************************************************)
\* The markers looked for in the URL as written, not lower-cased.
MarkersCaseSensitive(s) ==
  [asics |-> includes(s, AsicsCom) \/ includes(s, AsicsSlash),
   bottega |-> includes(s, BottegaVenetaCom) \/ includes(s, BottegaVenetaSlash)]

\* The markers detectBrand looks for in the lower-cased URL.
Markers(s) ==
  [asics |-> \/ includes(toLowerCase(s), AsicsCom)
             \/ includes(toLowerCase(s), AsicsSlash),
   bottega |-> \/ includes(toLowerCase(s), BottegaVenetaCom)
               \/ includes(toLowerCase(s), BottegaVenetaSlash)]

(***************************************************************************)
(* extractAsicsProductCode.                                                *)
(***************************************************************************)
ClassAt(s, k, cls) == k \in DOMAIN s /\ InClass(s[k], cls)

Found(code) == [found |-> TRUE, code |-> code]

\* ([0-9A-Z]+)(?:-([0-9A-Z]+))?\.html from position a.  Each run is taken
\* whole: a shorter run is followed by a character of the run, which is
\* neither "-" nor ".", so backtracking into it cannot succeed.
AsicsCodeHtmlAt(s, a) ==
  LET e1 == RunEnd(s, a, "alnum")
      e2 == RunEnd(s, e1 + 2, "alnum")
  IN  IF e1 < a THEN NoMatch
      ELSE IF LitAt(s, e1 + 1, Hyphen) /\ e2 >= e1 + 2 /\ LitAt(s, e2 + 1, DotHtml)
        THEN Matched(SubSeq(s, a, e1), TRUE, SubSeq(s, e1 + 2, e2))
      ELSE IF LitAt(s, e1 + 1, DotHtml)
        THEN Matched(SubSeq(s, a, e1), FALSE, << >>)
      ELSE NoMatch

\* The first pattern without its optional ANA_ prefix.
AsicsPattern1WithoutPrefixAt(s, k) ==
  IF LitAt(s, k, SlashP) THEN AsicsCodeHtmlAt(s, k + 3) ELSE NoMatch

\* /\/p\/(?:ANA_)?([0-9A-Z]+)(?:-([0-9A-Z]+))?\.html/i at position k: the
\* optional prefix is tried first, then left out.
AsicsPattern1At(s, k) ==
  IF ~LitAt(s, k, SlashP) THEN NoMatch
  ELSE IF LitAt(s, k + 3, AnaPrefix) /\ AsicsCodeHtmlAt(s, k + 7).m
    THEN AsicsCodeHtmlAt(s, k + 7)
  ELSE AsicsCodeHtmlAt(s, k + 3)

\* /\/p\/([0-9A-Z]+)(?:-([0-9A-Z]+))?\.html/i at position k.
AsicsPattern2At(s, k) ==
  IF LitAt(s, k, SlashP) THEN AsicsCodeHtmlAt(s, k + 3) ELSE NoMatch

\* [0-9]{3}(?:-| |_)([0-9A-Z]{3}) from position p.
AsicsTailAt(s, p) ==
  /\ \A j \in p..(p + 2) : ClassAt(s, j, "digit")
  /\ p + 3 \in DOMAIN s /\ s[p + 3] \in {"-", " ", "_"}
  /\ \A j \in (p + 4)..(p + 6) : ClassAt(s, j, "alnum")

\* /([0-9]{4}[A-Z]{1,2}[0-9]{3})(?:-| |_)([0-9A-Z]{3})/i at position k:
\* two letters are tried first, then one.
AsicsPattern3At(s, k) ==
  IF ~((\A j \in k..(k + 3) : ClassAt(s, j, "digit")) /\ ClassAt(s, k + 4, "letter"))
    THEN NoMatch
  ELSE IF ClassAt(s, k + 5, "letter") /\ AsicsTailAt(s, k + 6)
    THEN Matched(SubSeq(s, k, k + 8), TRUE, SubSeq(s, k + 10, k + 12))
  ELSE IF AsicsTailAt(s, k + 5)
    THEN Matched(SubSeq(s, k, k + 7), TRUE, SubSeq(s, k + 9, k + 11))
  ELSE NoMatch

\* url.match(pattern): the match at the leftmost position that has one.
AsicsPattern1(s) ==
  LET ks == {k \in DOMAIN s : AsicsPattern1At(s, k).m}
  IN  IF ks = {} THEN NoMatch ELSE AsicsPattern1At(s, Leftmost(ks))

AsicsPattern2(s) ==
  LET ks == {k \in DOMAIN s : AsicsPattern2At(s, k).m}
  IN  IF ks = {} THEN NoMatch ELSE AsicsPattern2At(s, Leftmost(ks))

AsicsPattern3(s) ==
  LET ks == {k \in DOMAIN s : AsicsPattern3At(s, k).m}
  IN  IF ks = {} THEN NoMatch ELSE AsicsPattern3At(s, Leftmost(ks))

\* match[1] + (match[2] ? "_" + match[2] : "").
JoinGroups(match) ==
  match.g1 \o (IF match.has2 THEN Underscore \o match.g2 ELSE << >>)

\* What each `if (match) return ...` of extractAsicsProductCode gives.
AsicsResult1(s) ==
  IF AsicsPattern1(s).m
    THEN Found(HyphensToUnderscores(JoinGroups(AsicsPattern1(s))))
    ELSE NoCode

AsicsResult2(s) ==
  IF AsicsPattern2(s).m
    THEN Found(HyphensToUnderscores(JoinGroups(AsicsPattern2(s))))
    ELSE NoCode

AsicsResult3(s) ==
  IF AsicsPattern3(s).m
    THEN Found(AsicsPattern3(s).g1 \o Underscore \o AsicsPattern3(s).g2)
    ELSE NoCode

extractAsicsProductCode(s) ==
  IF AsicsResult1(s).found THEN AsicsResult1(s)
  ELSE IF AsicsResult2(s).found THEN AsicsResult2(s)
  ELSE IF AsicsResult3(s).found THEN AsicsResult3(s)
  ELSE NoCode

(***************************************************************************)
(* extractBottegaVenetaProductCode.                                        *)
(***************************************************************************)
\* /\/product-detail\/([a-zA-Z0-9-]+)\.html/i at position k.
BottegaPattern1At(s, k) ==
  LET a == k + Len(SlashProductDetail)
      e == RunEnd(s, a, "alnumHyphen")
  IN  IF LitAt(s, k, SlashProductDetail) /\ e >= a /\ LitAt(s, e + 1, DotHtml)
        THEN Matched(SubSeq(s, a, e), FALSE, << >>)
        ELSE NoMatch

\* /[?&]code=([a-zA-Z0-9-]+)/i at position k.
BottegaPattern2At(s, k) ==
  LET a == k + 1 + Len(CodeParam)
      e == RunEnd(s, a, "alnumHyphen")
  IN  IF k \in DOMAIN s /\ s[k] \in {"?", "&"} /\ LitAt(s, k + 1, CodeParam) /\ e >= a
        THEN Matched(SubSeq(s, a, e), FALSE, << >>)
        ELSE NoMatch

\* /([A-Z0-9]{6,})(?:-([A-Z0-9]{3,}))?/i at position k.
BottegaPattern3At(s, k) ==
  LET e1 == RunEnd(s, k, "alnum")
      e2 == RunEnd(s, e1 + 2, "alnum")
  IN  IF e1 - k + 1 < 6 THEN NoMatch
      ELSE IF LitAt(s, e1 + 1, Hyphen) /\ e2 - (e1 + 2) + 1 >= 3
        THEN Matched(SubSeq(s, k, e1), TRUE, SubSeq(s, e1 + 2, e2))
      ELSE Matched(SubSeq(s, k, e1), FALSE, << >>)

BottegaPattern1(s) ==
  LET ks == {k \in DOMAIN s : BottegaPattern1At(s, k).m}
  IN  IF ks = {} THEN NoMatch ELSE BottegaPattern1At(s, Leftmost(ks))

BottegaPattern2(s) ==
  LET ks == {k \in DOMAIN s : BottegaPattern2At(s, k).m}
  IN  IF ks = {} THEN NoMatch ELSE BottegaPattern2At(s, Leftmost(ks))

BottegaPattern3(s) ==
  LET ks == {k \in DOMAIN s : BottegaPattern3At(s, k).m}
  IN  IF ks = {} THEN NoMatch ELSE BottegaPattern3At(s, Leftmost(ks))

\* What each `if (match) return ...` of extractBottegaVenetaProductCode gives.
BottegaResult1(s) ==
  IF BottegaPattern1(s).m THEN Found(BottegaPattern1(s).g1) ELSE NoCode

BottegaResult2(s) ==
  IF BottegaPattern2(s).m THEN Found(BottegaPattern2(s).g1) ELSE NoCode

BottegaResult3(s) ==
  IF BottegaPattern3(s).m THEN Found(JoinGroups(BottegaPattern3(s))) ELSE NoCode

extractBottegaVenetaProductCode(s) ==
  IF BottegaResult1(s).found THEN BottegaResult1(s)
  ELSE IF BottegaResult2(s).found THEN BottegaResult2(s)
  ELSE IF BottegaResult3(s).found THEN BottegaResult3(s)
  ELSE NoCode

(***************************************************************************)
(* extractGenericProductCode.  g1 holds the code's match[2].               *)
(***************************************************************************)
\* /\/(p|products|product)\/([a-zA-Z0-9-_]+)(?:\.html)?/i at position k.
GenericPattern1At(s, k) ==
  LET a == IF LitAt(s, k, SlashP) THEN k + Len(SlashP)
           ELSE IF LitAt(s, k, SlashProducts) THEN k + Len(SlashProducts)
           ELSE IF LitAt(s, k, SlashProduct) THEN k + Len(SlashProduct)
           ELSE 0
      e == RunEnd(s, a, "word")
  IN  IF a > 0 /\ e >= a THEN Matched(SubSeq(s, a, e), FALSE, << >>) ELSE NoMatch

\* /[?&](product_?id)=([a-zA-Z0-9-_]+)/i at position k.
GenericPattern2At(s, k) ==
  LET a == IF LitAt(s, k + 1, ProductUnderscoreIdParam) THEN k + 1 + Len(ProductUnderscoreIdParam)
           ELSE IF LitAt(s, k + 1, ProductIdParam) THEN k + 1 + Len(ProductIdParam)
           ELSE 0
      e == RunEnd(s, a, "word")
  IN  IF k \in DOMAIN s /\ s[k] \in {"?", "&"} /\ a > 0 /\ e >= a
        THEN Matched(SubSeq(s, a, e), FALSE, << >>)
        ELSE NoMatch

\* /[?&](sku)=([a-zA-Z0-9-_]+)/i at position k.
GenericPattern3At(s, k) ==
  LET a == k + 1 + Len(SkuParam)
      e == RunEnd(s, a, "word")
  IN  IF k \in DOMAIN s /\ s[k] \in {"?", "&"} /\ LitAt(s, k + 1, SkuParam) /\ e >= a
        THEN Matched(SubSeq(s, a, e), FALSE, << >>)
        ELSE NoMatch

GenericPattern1(s) ==
  LET ks == {k \in DOMAIN s : GenericPattern1At(s, k).m}
  IN  IF ks = {} THEN NoMatch ELSE GenericPattern1At(s, Leftmost(ks))

GenericPattern2(s) ==
  LET ks == {k \in DOMAIN s : GenericPattern2At(s, k).m}
  IN  IF ks = {} THEN NoMatch ELSE GenericPattern2At(s, Leftmost(ks))

GenericPattern3(s) ==
  LET ks == {k \in DOMAIN s : GenericPattern3At(s, k).m}
  IN  IF ks = {} THEN NoMatch ELSE GenericPattern3At(s, Leftmost(ks))

\* What each `if (match) return ...` of extractGenericProductCode gives.
GenericResult1(s) ==
  IF GenericPattern1(s).m
    THEN Found(HyphensToUnderscores(GenericPattern1(s).g1))
    ELSE NoCode

GenericResult2(s) ==
  IF GenericPattern2(s).m
    THEN Found(HyphensToUnderscores(GenericPattern2(s).g1))
    ELSE NoCode

GenericResult3(s) ==
  IF GenericPattern3(s).m
    THEN Found(HyphensToUnderscores(GenericPattern3(s).g1))
    ELSE NoCode

\* The sku parameter looked at before the path and the product id.
GenericSkuFirst(s) ==
  IF GenericResult3(s).found THEN GenericResult3(s)
  ELSE IF GenericResult1(s).found THEN GenericResult1(s)
  ELSE IF GenericResult2(s).found THEN GenericResult2(s)
  ELSE NoCode

extractGenericProductCode(s) ==
  IF GenericResult1(s).found THEN GenericResult1(s)
  ELSE IF GenericResult2(s).found THEN GenericResult2(s)
  ELSE IF GenericResult3(s).found THEN GenericResult3(s)
  ELSE NoCode

(***************************************************************************)
(* extractProductCode.                                                     *)
(***************************************************************************)
extractProductCode(s) ==
  IF detectBrand(Markers(s)) = ASICS THEN extractAsicsProductCode(s)
  ELSE IF detectBrand(Markers(s)) = BOTTEGA_VENETA THEN extractBottegaVenetaProductCode(s)
  ELSE extractGenericProductCode(s)

(***************************************************************************)
(* SpecExtract: detectBrand and extractProductCode on page URLs made of a  *)
(* host, some path segments and a query.                                   *)
(***************************************************************************)
MaxSegments == 2    \* path segments of a page URL

\* Origins, the last one with a first path segment.
Hosts ==
  {
    \* https://www.asics.com
    <<"h", "t", "t", "p", "s", ":", "/", "/", "w", "w", "w", ".", "a", "s",
      "i", "c", "s", ".", "c", "o", "m">>,
    \* https://www.bottegaveneta.com
    <<"h", "t", "t", "p", "s", ":", "/", "/", "w", "w", "w", ".", "b", "o",
      "t", "t", "e", "g", "a", "v", "e", "n", "e", "t", "a", ".", "c", "o",
      "m">>,
    \* https://shop.example.com
    <<"h", "t", "t", "p", "s", ":", "/", "/", "s", "h", "o", "p", ".", "e",
      "x", "a", "m", "p", "l", "e", ".", "c", "o", "m">>,
    \* https://outlet.example.com/asics
    <<"h", "t", "t", "p", "s", ":", "/", "/", "o", "u", "t", "l", "e", "t",
      ".", "e", "x", "a", "m", "p", "l", "e", ".", "c", "o", "m", "/", "a",
      "s", "i", "c", "s">>
  }

\* Path segments.
PathSegments ==
  {
    \* /p/ANA_1203A474-002.html
    <<"/", "p", "/", "A", "N", "A", "_", "1", "2", "0", "3", "A", "4", "7",
      "4", "-", "0", "0", "2", ".", "h", "t", "m", "l">>,
    \* /p/1203A474-002.html
    <<"/", "p", "/", "1", "2", "0", "3", "A", "4", "7", "4", "-", "0", "0",
      "2", ".", "h", "t", "m", "l">>,
    \* /p/ANA_1203A474.html
    <<"/", "p", "/", "A", "N", "A", "_", "1", "2", "0", "3", "A", "4", "7",
      "4", ".", "h", "t", "m", "l">>,
    \* /p/ana_ab12-x9.html
    <<"/", "p", "/", "a", "n", "a", "_", "a", "b", "1", "2", "-", "x", "9",
      ".", "h", "t", "m", "l">>,
    \* /en-us
    <<"/", "e", "n", "-", "u", "s">>,
    \* /shoes/1011B040_100
    <<"/", "s", "h", "o", "e", "s", "/", "1", "0", "1", "1", "B", "0", "4",
      "0", "_", "1", "0", "0">>,
    \* /products/gel-kayano
    <<"/", "p", "r", "o", "d", "u", "c", "t", "s", "/", "g", "e", "l", "-",
      "k", "a", "y", "a", "n", "o">>,
    \* /product-detail/bag-123.html
    <<"/", "p", "r", "o", "d", "u", "c", "t", "-", "d", "e", "t", "a", "i",
      "l", "/", "b", "a", "g", "-", "1", "2", "3", ".", "h", "t", "m", "l">>
  }

\* Query strings.
Queries ==
  {
    \* ?sku=AB-12
    <<"?", "s", "k", "u", "=", "A", "B", "-", "1", "2">>,
    \* ?product_id=X9
    <<"?", "p", "r", "o", "d", "u", "c", "t", "_", "i", "d", "=", "X", "9">>,
    \* ?code=ab-77
    <<"?", "c", "o", "d", "e", "=", "a", "b", "-", "7", "7">>,
    \* ?productId=Z-1&sku=Q1
    <<"?", "p", "r", "o", "d", "u", "c", "t", "I", "d", "=", "Z", "-", "1",
      "&", "s", "k", "u", "=", "Q", "1">>
  }

RECURSIVE Flatten(_)
Flatten(ss) == IF ss = << >> THEN << >> ELSE Head(ss) \o Flatten(Tail(ss))

PageUrls ==
  {h \o Flatten(ss) \o q :
     h \in Hosts,
     ss \in UNION {[1..n -> PathSegments] : n \in 0..MaxSegments},
     q \in Queries \cup {<< >>}}

InitExtract ==
  /\ pc = "extract"
  /\ pageUrl \in PageUrls
  /\ productCode = NoCode
  /\ brand = UNKNOWN /\ clusters = NoClusters /\ urls = << >>
  /\ page = NoPage /\ generatedUrls = << >> /\ scrapedUrls = << >>
  /\ i = 0 /\ inflight = {} /\ results = << >> /\ validUrls = << >>
  /\ net = NoNet /\ started = << >> /\ batches = << >>
  /\ probe = NoProbe /\ verdict = Returns(FALSE) /\ response = Pending
  /\ doc = << >> /\ now = 0 /\ lastRequestTime = 0
  /\ searches = << >> /\ requests = << >>

\* getImagesFromUrl: brand = detectBrand(url); productCode = extractProductCode(url).
ExtractProductCode ==
  /\ pc = "extract"
  /\ brand' = detectBrand(Markers(pageUrl))
  /\ productCode' = extractProductCode(pageUrl)
  /\ pc' = "extracted"
  /\ UNCHANGED <<doc, searchVars, pageUrl, page, generatedUrls, scrapedUrls, urls, clusters, i,
                 inflight, results, validUrls, net, started, batches, probe,
                 verdict, response>>

NextExtract == ExtractProductCode

SpecExtract == InitExtract /\ [][NextExtract]_vars

\* C11: a product code that extractProductCode returns is non-empty and
\* holds no hyphen, for every URL and brand.
C11_CodeNonEmptyNoHyphen ==
  (pc = "extracted" /\ productCode.found) =>
    /\ Len(productCode.code) > 0
    /\ "-" \notin Range(productCode.code)

\* The alphanumeric tokens that stand for <A> and <B>.
CodeTokens ==
  {<<"1", "2", "0", "3", "A", "4", "7", "4">>,
   <<"0", "0", "2">>,
   <<"1", "0", "1", "1", "B", "0", "4", "0">>,
   <<"a", "b", "1", "2">>,
   <<"x", "9">>}

\* The text t occurs in s at position k, letter case included.
OccursAt(s, k, t) ==
  /\ k >= 1
  /\ k + Len(t) - 1 <= Len(s)
  /\ SubSeq(s, k, k + Len(t) - 1) = t

\* The /p/ segments of the two shapes, each with the code it stands for:
\* /p/ANA_<A>-<B>.html and /p/<A>-<B>.html, the -<B> part optional.
AsicsShapes ==
  {[text |-> SlashP \o pre \o a \o
              (IF b = << >> THEN << >> ELSE Hyphen \o b) \o DotHtml,
    code |-> a \o (IF b = << >> THEN << >> ELSE Underscore \o b)] :
     pre \in {<< >>, <<"A", "N", "A", "_">>}, a \in CodeTokens, b \in CodeTokens \cup {<< >>}}

\* Where the first /p/ of a URL starts, 0 when it has none.
FirstSlashP(s) ==
  LET ks == {k \in DOMAIN s : OccursAt(s, k, SlashP)}
  IN  IF ks = {} THEN 0 ELSE Leftmost(ks)

GelVenturePage ==
  <<"h", "t", "t", "p", "s", ":", "/", "/", "w", "w", "w", ".", "a", "s", "i", "c", "s", ".", "c", "o", "m">> \o
  <<"/", "e", "n", "-", "u", "s">> \o SlashP \o
  <<"A", "N", "A", "_", "1", "2", "0", "3", "A", "4", "7", "4", "-", "0", "0", "2">> \o DotHtml

GelVentureCode == <<"1", "2", "0", "3", "A", "4", "7", "4", "_", "0", "0", "2">>

\* C12: for an ASICS URL whose /p/ segment is ANA_<A>-<B>.html or
\* <A>-<B>.html the code is <A>_<B>, and <A> when -<B> is absent;
\* .../p/ANA_1203A474-002.html gives 1203A474_002.
C12_AsicsCodeNormalized ==
  (pc = "extracted" /\ brand = ASICS) =>
    /\ \A sh \in AsicsShapes :
         OccursAt(pageUrl, FirstSlashP(pageUrl), sh.text)
           => productCode = Found(sh.code)
    /\ pageUrl = GelVenturePage => productCode = Found(GelVentureCode)

\* Witness of C12: the page .../p/ANA_1203A474-002.html gave 1203A474_002.
C12_Witness ==
  /\ pc = "extracted" /\ brand = ASICS
  /\ pageUrl = GelVenturePage
  /\ productCode = Found(GelVentureCode)

\* The results of the patterns of the brand, in the listed order.
PatternResults(b, s) ==
  IF b = ASICS THEN <<AsicsResult1(s), AsicsResult2(s), AsicsResult3(s)>>
  ELSE IF b = BOTTEGA_VENETA
    THEN <<BottegaResult1(s), BottegaResult2(s), BottegaResult3(s)>>
  ELSE <<GenericResult1(s), GenericResult2(s), GenericResult3(s)>>

\* C19: extractProductCode returns the result of the first pattern of the
\* detected brand that matches, and is absent only when none matches.
C19_FirstMatchingPatternWins ==
  pc = "extracted" =>
    LET rs == PatternResults(brand, pageUrl)
        hits == {k \in DOMAIN rs : rs[k].found}
    IN  IF hits = {} THEN productCode = NoCode
        ELSE productCode = rs[Leftmost(hits)]

\* Witness of C19: on an unknown brand's URL the path segment and the sku
\* parameter both match, with different codes, and the path segment won.
C19_Witness ==
  /\ pc = "extracted" /\ brand = UNKNOWN
  /\ GenericResult1(pageUrl).found /\ GenericResult3(pageUrl).found
  /\ GenericResult1(pageUrl) # GenericResult3(pageUrl)
  /\ productCode = GenericResult1(pageUrl)

\* C20: for a known brand's URL on which no pattern of the brand matches,
\* the generic patterns decide: the code they give is returned.
C20_FallsBackToGeneric ==
  (/\ pc = "extracted"
   /\ brand \in {ASICS, BOTTEGA_VENETA}
   /\ \A k \in 1..3 : ~PatternResults(brand, pageUrl)[k].found)
    => productCode = extractGenericProductCode(pageUrl)

(***************************************************************************)
(* SpecDedup: Array.from(new Set([...generatedUrls, ...scrapedUrls])) on   *)
(* every pair of short lists, repeated strings included.                   *)
(***************************************************************************)
MaxListLen == 3     \* longest generated list and longest scraped list
MaxStrings == 3     \* distinct strings the lists draw from

Lists == UNION {[1..n -> 1..MaxStrings] : n \in 0..MaxListLen}

InitDedup ==
  /\ pc = "dedup"
  /\ generatedUrls \in Lists
  /\ scrapedUrls \in Lists
  /\ urls = << >>
  /\ pageUrl = << >> /\ productCode = NoCode
  /\ brand = UNKNOWN /\ clusters = NoClusters /\ page = NoPage
  /\ i = 0 /\ inflight = {} /\ results = << >> /\ validUrls = << >>
  /\ net = NoNet /\ started = << >> /\ batches = << >>
  /\ probe = NoProbe /\ verdict = Returns(FALSE) /\ response = Pending
  /\ doc = << >> /\ now = 0 /\ lastRequestTime = 0
  /\ searches = << >> /\ requests = << >>

\* allUrls = [...generatedUrls, ...scrapedUrls]; uniqueUrls = Array.from(new Set(allUrls)).
DedupAll ==
  /\ pc = "dedup"
  /\ urls' = Dedup(generatedUrls \o scrapedUrls)
  /\ pc' = "deduped"
  /\ UNCHANGED <<doc, searchVars, pageUrl, productCode, page, brand, generatedUrls, scrapedUrls,
                 clusters, i, inflight, results, validUrls, net, started,
                 batches, probe, verdict, response>>

NextDedup == DedupAll

SpecDedup == InitDedup /\ [][NextDedup]_vars

\* Position of the first occurrence of x in xs.
FirstIndex(xs, x) == CHOOSE k \in DOMAIN xs : xs[k] = x /\ \A j \in 1..(k - 1) : xs[j] # x

\* C13: the dedup is idempotent; its result holds the elements of the input,
\* each once, in the order of their first occurrence, so a generated
\* candidate comes before every candidate that was only scraped.
C13_DedupIdempotentFirstOccurrence ==
  pc = "deduped" =>
    LET allUrls == generatedUrls \o scrapedUrls
    IN  /\ Dedup(urls) = urls
        /\ Range(urls) = Range(allUrls)
        /\ \A a, b \in DOMAIN urls : a # b => urls[a] # urls[b]
        /\ \A a, b \in DOMAIN urls :
             a < b => FirstIndex(allUrls, urls[a]) < FirstIndex(allUrls, urls[b])
        /\ \A a, b \in DOMAIN urls :
             (urls[a] \in Range(generatedUrls) /\ urls[b] \notin Range(generatedUrls))
               => a < b

\* Witness of C13: a string is generated twice, another is both generated
\* and scraped, a third is only scraped, and three strings are left.
C13_Witness ==
  /\ pc = "deduped"
  /\ \E a, b \in DOMAIN generatedUrls : a # b /\ generatedUrls[a] = generatedUrls[b]
  /\ Range(generatedUrls) \cap Range(scrapedUrls) # {}
  /\ Range(scrapedUrls) \ Range(generatedUrls) # {}
  /\ Len(urls) = 3

(***************************************************************************)
(* SpecSimilar: areSimilarImageUrls on every pair of table entries, for    *)
(* every brand.                                                            *)
(***************************************************************************)
InitSimilar ==
  /\ pc = "compare"
  /\ urls \in [1..2 -> 1..NUrls]
  /\ brand \in SupportedBrand
  /\ pageUrl = << >> /\ productCode = NoCode
  /\ clusters = NoClusters /\ page = NoPage
  /\ generatedUrls = << >> /\ scrapedUrls = << >>
  /\ i = 0 /\ inflight = {} /\ results = << >> /\ validUrls = << >>
  /\ net = NoNet /\ started = << >> /\ batches = << >>
  /\ probe = NoProbe /\ verdict = Returns(FALSE) /\ response = Pending
  /\ doc = << >> /\ now = 0 /\ lastRequestTime = 0
  /\ searches = << >> /\ requests = << >>

\* What the caller of areSimilarImageUrls gets.
Outcome(o) == IF o = InvalidUrl THEN Throws ELSE Returns(o = Similar)

Compare ==
  /\ pc = "compare"
  /\ verdict' = Outcome(areSimilarImageUrls(urls[1], urls[2], brand))
  /\ pc' = "compared"
  /\ UNCHANGED <<doc, searchVars, pageUrl, productCode, page, brand, generatedUrls, scrapedUrls,
                 urls, clusters, i, inflight, results, validUrls, net, started,
                 batches, probe, response>>

NextSimilar == Compare

SpecSimilar == InitSimilar /\ [][NextSimilar]_vars

\* The product code and the view the generators put into a table entry:
\* baseUrl + productCode + view + format for ASICS,
\* baseUrl + productCode + view + ".jpg" + format for Bottega Veneta.
NoParts == [brand |-> UNKNOWN, code |-> "", view |-> ""]
Parts(id) ==
  IF id \in 1..4 THEN [brand |-> ASICS, code |-> "1203A474_002", view |-> "_SR_RT_GLB"]
  ELSE IF id = 12 THEN [brand |-> ASICS, code |-> "1203A474_002", view |-> "_SR_LT_GLB"]
  ELSE IF id \in 10..11 THEN [brand |-> BOTTEGA_VENETA, code |-> "ABC123", view |-> ""]
  ELSE IF id \in 13..14 THEN [brand |-> BOTTEGA_VENETA, code |-> "ABC123", view |-> "_F"]
  ELSE IF id = 15 THEN [brand |-> BOTTEGA_VENETA, code |-> "ABC123", view |-> "_B"]
  ELSE NoParts

\* The pair under comparison: two different URLs of the brand, same product.
PairOf(b) ==
  /\ pc = "compared" /\ brand = b
  /\ urls[1] # urls[2]
  /\ Parts(urls[1]).brand = b /\ Parts(urls[2]).brand = b
  /\ Parts(urls[1]).code = Parts(urls[2]).code

\* C17: for Bottega Veneta, two URLs of one host with the same view code
\* that differ in the size designation alone are similar, two URLs without
\* a view code are similar, two URLs with different view codes are not.
C17_BottegaVenetaSameViewSimilar ==
  (PairOf(BOTTEGA_VENETA) /\ Feat(urls[1]).host = Feat(urls[2]).host) =>
    LET view1 == Parts(urls[1]).view
        view2 == Parts(urls[2]).view
    IN  /\ (view1 # "" /\ view1 = view2) => verdict = Returns(TRUE)
        /\ (view1 = "" /\ view2 = "") => verdict = Returns(TRUE)
        /\ (view1 # "" /\ view2 # "" /\ view1 # view2) => verdict = Returns(FALSE)

\* C18: for ASICS, two URLs with the same product code and the same view
\* and angle tokens that differ in the query suffix alone are similar; two
\* URLs of one product code with different view and angle tokens are not.
C18_AsicsSimilarIffSameView ==
  PairOf(ASICS) =>
    /\ Parts(urls[1]).view = Parts(urls[2]).view => verdict = Returns(TRUE)
    /\ Parts(urls[1]).view # Parts(urls[2]).view => verdict = Returns(FALSE)

\* Witness of C18: _SR_RT_GLB against _SR_LT_GLB of one product, told apart.
C18_Witness ==
  /\ PairOf(ASICS)
  /\ Parts(urls[1]).view = "_SR_RT_GLB" /\ Parts(urls[2]).view = "_SR_LT_GLB"
  /\ verdict = Returns(FALSE)

\* C28: areSimilarImageUrls gives the same answer with its two URLs
\* exchanged, for every brand, and judges a URL similar to itself.
C28_SimilaritySymmetricReflexive ==
  pc = "compared" =>
    /\ verdict = Outcome(areSimilarImageUrls(urls[2], urls[1], brand))
    /\ urls[1] = urls[2] => verdict = Returns(TRUE)

\* Witness of C28: two different URLs judged similar.
C28_Witness ==
  /\ pc = "compared" /\ urls[1] # urls[2]
  /\ verdict = Returns(TRUE)
  /\ Outcome(areSimilarImageUrls(urls[2], urls[1], brand)) = Returns(TRUE)

(***************************************************************************)
(* SpecBrand: detectBrand on URLs that hold the brand markers, whole or    *)
(* cut short, in several letter cases.                                     *)
(***************************************************************************)
Schemes ==
  {<<"h", "t", "t", "p", "s", ":", "/", "/">>,
   <<"H", "T", "T", "P", "S", ":", "/", "/", "W", "W", "W", ".">>}

Domains ==
  {<<"a", "s", "i", "c", "s", ".", "c", "o", "m">>,
   <<"A", "S", "I", "C", "S", ".", "C", "O", "M">>,
   <<"A", "s", "i", "c", "s", ".", "C", "o", "m">>,
   <<"a", "s", "i", "c", "s">>,
   <<"b", "o", "t", "t", "e", "g", "a", "v", "e", "n", "e", "t", "a", ".", "c", "o", "m">>,
   <<"B", "o", "t", "t", "e", "g", "a", "V", "e", "n", "e", "t", "a", ".", "C", "O", "M">>,
   <<"b", "o", "t", "t", "e", "g", "a", "v", "e", "n", "e", "t", "a">>,
   <<"e", "x", "a", "m", "p", "l", "e", ".", "c", "o", "m">>,
   <<"b", "a", "s", "i", "c", "s", ".", "c", "o">>}

Tails ==
  {<<>>,
   <<"/", "s", "h", "o", "p">>,
   <<"/", "A", "s", "i", "c", "s", "/", "x">>,
   <<"/", "B", "O", "T", "T", "E", "G", "A", "V", "E", "N", "E", "T", "A", "/">>,
   <<"/", "a", "s", "i", "c", "s">>,
   <<"/", "b", "o", "t", "t", "e", "g", "a", "v", "e", "n", "e", "t", "a", ".", "c", "o">>}

BrandUrls == {a \o b \o c : a \in Schemes, b \in Domains, c \in Tails}

InitBrand ==
  /\ pc = "extract"
  /\ pageUrl \in BrandUrls
  /\ productCode = NoCode
  /\ brand = UNKNOWN /\ clusters = NoClusters /\ urls = << >>
  /\ page = NoPage /\ generatedUrls = << >> /\ scrapedUrls = << >>
  /\ i = 0 /\ inflight = {} /\ results = << >> /\ validUrls = << >>
  /\ net = NoNet /\ started = << >> /\ batches = << >>
  /\ probe = NoProbe /\ verdict = Returns(FALSE) /\ response = Pending
  /\ doc = << >> /\ now = 0 /\ lastRequestTime = 0
  /\ searches = << >> /\ requests = << >>

SpecBrand == InitBrand /\ [][NextExtract]_vars

\* The text t occurs in s when letter case is ignored.
Holds(s, t) == \E k \in DOMAIN s : LitAt(s, k, t)

\* C25: detectBrand gives ASICS when the URL holds asics.com or asics/ in
\* any letter case, Bottega Veneta when it holds bottegaveneta.com or
\* bottegaveneta/ and no ASICS marker, Unknown otherwise; the brand is a
\* function of the lower-cased text.
C25_BrandFromLowerCasedMarkers ==
  pc = "extracted" =>
    /\ brand \in SupportedBrand
    /\ brand = ASICS <=> (Holds(pageUrl, AsicsCom) \/ Holds(pageUrl, AsicsSlash))
    /\ brand = BOTTEGA_VENETA <=>
         /\ Holds(pageUrl, BottegaVenetaCom) \/ Holds(pageUrl, BottegaVenetaSlash)
         /\ ~(Holds(pageUrl, AsicsCom) \/ Holds(pageUrl, AsicsSlash))
    /\ brand = detectBrand(Markers(toLowerCase(pageUrl)))

\* Witness of C25: an upper-case Bottega Veneta marker and no ASICS marker.
C25_Witness ==
  /\ pc = "extracted" /\ brand = BOTTEGA_VENETA
  /\ ~includes(pageUrl, BottegaVenetaCom) /\ ~includes(pageUrl, BottegaVenetaSlash)

(***************************************************************************)
(* SpecSearch: the singleton GoogleSearchClient.  Several calls of search  *)
(* are under way at once; each is a chain of awaits, and between two       *)
(* awaits a call runs alone.  Time advances to the next timer or response, *)
(* or by a gap after which another call arrives.  The client is fresh      *)
(* (lastRequestTime = 0) or has sent the request of an earlier, finished   *)
(* call a gap ago.                                                         *)
(***************************************************************************)
MAX_RETRIES == 3
RETRY_DELAY == 1000
RATE_LIMIT_DELAY == 60000

MaxSearches == 2    \* calls of search in one run
MaxWait == 1200     \* latest arrival of a call, after the first

Gaps == {400}       \* time between arrivals
Latencies == {200}  \* time from a request to its response or error

\* How axios.get ends: a response, an AxiosError with a response status,
\* an AxiosError without response, an error that is no AxiosError.
Outcomes == {"ok", "429", "500", "noResponse", "other"}

Searching == {"limit", "request", "backoff"}

IdleSearch == [pc |-> "idle", at |-> 0, retryCount |-> 0]

InitSearch ==
  /\ pc = "search"
  /\ now = RETRY_DELAY
  /\ lastRequestTime \in {0} \cup {now - g : g \in Gaps}
  /\ searches = [c \in 1..MaxSearches |-> IdleSearch]
  /\ requests = << >>
  /\ doc = << >>
  /\ pageUrl = << >> /\ productCode = NoCode
  /\ brand = UNKNOWN /\ clusters = NoClusters /\ urls = << >>
  /\ page = NoPage /\ generatedUrls = << >> /\ scrapedUrls = << >>
  /\ i = 0 /\ inflight = {} /\ results = << >> /\ validUrls = << >>
  /\ net = NoNet /\ started = << >> /\ batches = << >>
  /\ probe = NoProbe /\ verdict = Returns(FALSE) /\ response = Pending

pipelineVars == <<pc, page, brand, generatedUrls, scrapedUrls, urls, clusters, i,
                  inflight, results, validUrls, net, started, batches, probe,
                  verdict, response, pageUrl, productCode, doc>>

\* lastRequestTime = Date.now(), then axios.get is issued.
SendRequest(c, rc) ==
  /\ lastRequestTime' = now
  /\ requests' = Append(requests, [search |-> c, time |-> now, retryCount |-> rc,
                                   outcome |-> "pending", settled |-> 0])
  /\ \E l \in Latencies :
       searches' = [searches EXCEPT ![c] = [pc |-> "request", at |-> now + l,
                                            retryCount |-> rc]]

\* search(query, rc) up to its first await that waits: ensureRateLimit
\* either awaits delay(...) or falls through to the request.
EnterSearch(c, rc) ==
  IF now - lastRequestTime < RETRY_DELAY
    THEN /\ searches' = [searches EXCEPT ![c] =
                           [pc |-> "limit",
                            at |-> now + (RETRY_DELAY - (now - lastRequestTime)),
                            retryCount |-> rc]]
         /\ UNCHANGED <<lastRequestTime, requests>>
    ELSE SendRequest(c, rc)

\* A caller invokes search(query); the calls are numbered as they arrive.
SearchCall(c) ==
  /\ searches[c].pc = "idle"
  /\ \A d \in 1..(c - 1) : searches[d].pc # "idle"
  /\ EnterSearch(c, 0)
  /\ UNCHANGED <<now, pipelineVars>>

\* The delay of ensureRateLimit is over.
RateLimitElapsed(c) ==
  /\ searches[c].pc = "limit"
  /\ searches[c].at <= now
  /\ SendRequest(c, searches[c].retryCount)
  /\ UNCHANGED <<now, pipelineVars>>

\* A retry for every failed request.
RetryOnAnyError(outcome, rc) == outcome # "ok" /\ rc < MAX_RETRIES

\* error.response?.status === 429 && retryCount < MAX_RETRIES.
ShouldRetry(outcome, rc) == outcome = "429" /\ rc < MAX_RETRIES

\* The request a call is waiting for.
PendingRequest(c) ==
  CHOOSE k \in DOMAIN requests : requests[k].search = c /\ requests[k].outcome = "pending"

\* axios.get settles: return response.data, or the catch block.
SearchSettled(c) ==
  /\ searches[c].pc = "request"
  /\ searches[c].at <= now
  /\ \E o \in Outcomes :
       /\ requests' = [requests EXCEPT ![PendingRequest(c)].outcome = o,
                                       ![PendingRequest(c)].settled = now]
       /\ searches' = [searches EXCEPT ![c] =
            IF o = "ok" THEN [@ EXCEPT !.pc = "returned"]
            ELSE IF ShouldRetry(o, @.retryCount)
              THEN [@ EXCEPT !.pc = "backoff", !.at = now + RATE_LIMIT_DELAY]
            ELSE [@ EXCEPT !.pc = "raised"]]
  /\ UNCHANGED <<now, lastRequestTime, pipelineVars>>

\* delay(RATE_LIMIT_DELAY) is over: return this.search(query, retryCount + 1).
BackoffElapsed(c) ==
  /\ searches[c].pc = "backoff"
  /\ searches[c].at <= now
  /\ EnterSearch(c, searches[c].retryCount + 1)
  /\ UNCHANGED <<now, pipelineVars>>

\* The times at which a timer or a response is due.
Due == {searches[c].at : c \in {d \in DOMAIN searches : searches[d].pc \in Searching}}

\* Date.now() moves on to the next due time, or by a gap while a caller
\* has still to arrive.
TimePasses ==
  /\ \A t \in Due : t > now
  /\ \/ /\ Due # {}
        /\ now' = Leftmost(Due)
     \/ /\ \E c \in DOMAIN searches : searches[c].pc = "idle"
        /\ \E g \in Gaps :
             /\ now + g <= RETRY_DELAY + MaxWait
             /\ \A t \in Due : now + g <= t
             /\ now' = now + g
  /\ UNCHANGED <<lastRequestTime, searches, requests, pipelineVars>>

NextSearch ==
  \/ \E c \in 1..MaxSearches : SearchCall(c)
  \/ \E c \in 1..MaxSearches : RateLimitElapsed(c)
  \/ \E c \in 1..MaxSearches : SearchSettled(c)
  \/ \E c \in 1..MaxSearches : BackoffElapsed(c)
  \/ TimePasses

SpecSearch == InitSearch /\ [][NextSearch]_vars

\* The requests of one call, in the order sent.
RequestsOf(c) == SelectSeq(requests, LAMBDA r : r.search = c)

\* C29: search retries only after HTTP 429, at most MAX_RETRIES times (at
\* most MAX_RETRIES + 1 requests a call), each retry RATE_LIMIT_DELAY or
\* more after the failure; any other error, and a 429 of the last allowed
\* attempt, is raised with no further request.
C29_RetryOnlyOn429AtMostThrice ==
  pc = "search" =>
    \A c \in DOMAIN searches :
      LET sent == RequestsOf(c)
      IN  /\ Len(sent) <= MAX_RETRIES + 1
          /\ \A k \in DOMAIN sent :
               /\ sent[k].retryCount = k - 1
               /\ k > 1 =>
                    /\ sent[k - 1].outcome = "429"
                    /\ sent[k].time >= sent[k - 1].settled + RATE_LIMIT_DELAY
               /\ (k < Len(sent)) => sent[k].outcome = "429"
          /\ searches[c].pc = "raised" <=>
               /\ sent # << >>
               /\ \/ sent[Len(sent)].outcome \in {"500", "noResponse", "other"}
                  \/ sent[Len(sent)].outcome = "429" /\ Len(sent) = MAX_RETRIES + 1
          /\ searches[c].pc = "returned" <=>
               (sent # << >> /\ sent[Len(sent)].outcome = "ok")

\* Witness of C29: a call raised after its fourth request met 429 again.
C29_Witness ==
  /\ pc = "search"
  /\ \E c \in DOMAIN searches :
       /\ searches[c].pc = "raised"
       /\ Len(RequestsOf(c)) = MAX_RETRIES + 1
       /\ \A k \in 1..(MAX_RETRIES + 1) : RequestsOf(c)[k].outcome = "429"

\* C30: any two requests the client sends are RETRY_DELAY or more apart.
C30_RequestsSpacedByRetryDelay ==
  pc = "search" =>
    \A j, k \in DOMAIN requests :
      j < k => requests[k].time - requests[j].time >= RETRY_DELAY

(***************************************************************************)
(* SpecLive: the runs of the pipeline and of checkBatchImageUrls in which  *)
(* every pending network call settles and every continuation that can run *)
(* does run.                                                               *)
(***************************************************************************)
MaxLiveScraped == 1    \* candidates the page yields in a run of SpecLive

InitLive ==
  \/ InitPipeline /\ Len(net.html.found) <= MaxLiveScraped
  \/ InitBatch

NextLive == Next \/ NextBatch

SpecLive == InitLive /\ [][NextLive]_vars /\ WF_vars(NextLive)

TimedOut(u) == TheProbe(u) = NoResponse("timeout")

\* C26: when every network call settles the run returns; a check that
\* timed out counts as not valid, the batch after it is started, and after
\* the last batch the result is delivered.
C26_EventuallyReturns ==
  /\ <>(pc \in {"done", "returned"})
  /\ [](\A pos \in DOMAIN results :
          (~net.free /\ TimedOut(urls[pos])) => ~results[pos])
  /\ \A n \in 1..3 :
       (pc = "await" /\ Len(batches) = n /\ n * MAX_PARALLEL_REQUESTS < Len(urls))
         ~> (Len(batches) = n + 1)
  /\ (pc = "await" /\ Len(batches) * MAX_PARALLEL_REQUESTS >= Len(urls))
       ~> (pc \in {"done", "returned"})

\* Witness of C26: three batches done and the result delivered, a check of
\* the first batch having timed out.
C26_Witness ==
  /\ pc = "returned" /\ Len(batches) = 3
  /\ ~net.free
  /\ \E pos \in 1..MAX_PARALLEL_REQUESTS :
       TimedOut(urls[pos]) /\ urls[pos] \notin Range(validUrls)

(***************************************************************************)
(* generateImageUrls.  The generators run the nested loops of the source   *)
(* over shorter vocabularies: each list below holds entries of the         *)
(* source's list, in the source's order.                                   *)
(***************************************************************************)
UpperChar(c) ==
  IF \E k \in DOMAIN Lowers : Lowers[k] = c
    THEN Uppers[CHOOSE k \in DOMAIN Lowers : Lowers[k] = c]
    ELSE c

toUpperCase(s) == [k \in DOMAIN s |-> UpperChar(s[k])]

\* String.prototype.replace(/_/g, '-').
UnderscoresToHyphens(s) == [k \in DOMAIN s |-> IF s[k] = "_" THEN "-" ELSE s[k]]

AsicsBaseUrl ==
  <<"h", "t", "t", "p", "s", ":", "/", "/", "i", "m", "a", "g", "e", "s", ".",
    "a", "s", "i", "c", "s", ".", "c", "o", "m", "/", "i", "s", "/", "i", "m",
    "a", "g", "e", "/", "a", "s", "i", "c", "s", "/">>

\* basicViews: the first two entries and the last.
AsicsBasicViews ==
  <<
    \* "_SR_RT_GLB"
    <<"_", "S", "R", "_", "R", "T", "_", "G", "L", "B">>,
    \* "_SR_LT_GLB"
    <<"_", "S", "R", "_", "L", "T", "_", "G", "L", "B">>,
    \* ""
    << >>
  >>

\* detailedViews: the first entry and "_1".
AsicsDetailedViews ==
  <<
    \* "_SR_RT"
    <<"_", "S", "R", "_", "R", "T">>,
    \* "_1"
    <<"_", "1">>
  >>

\* regionSuffixes: the first entry and the last.
AsicsRegionSuffixes ==
  <<
    \* "_GLB"
    <<"_", "G", "L", "B">>,
    \* ""
    << >>
  >>

\* formats: the first three entries and the last.
AsicsFormats ==
  <<
    \* "?$zoom$"
    <<"?", "$", "z", "o", "o", "m", "$">>,
    \* "?$sfcc-product$"
    <<"?", "$", "s", "f", "c", "c", "-", "p", "r", "o", "d", "u", "c", "t",
      "$">>,
    \* "?$sfcc-product-900x900$"
    <<"?", "$", "s", "f", "c", "c", "-", "p", "r", "o", "d", "u", "c", "t",
      "-", "9", "0", "0", "x", "9", "0", "0", "$">>,
    \* ""
    << >>
  >>

\* The four URLs of step 3, after the product code.
AsicsOtherSuffixes ==
  <<
    \* "_SR_RT_GLB?width=600&height=600&fmt=jpeg"
    <<"_", "S", "R", "_", "R", "T", "_", "G", "L", "B", "?", "w", "i", "d",
      "t", "h", "=", "6", "0", "0", "&", "h", "e", "i", "g", "h", "t", "=",
      "6", "0", "0", "&", "f", "m", "t", "=", "j", "p", "e", "g">>,
    \* "_SR_RT_GLB?width=900&height=900&fmt=jpeg"
    <<"_", "S", "R", "_", "R", "T", "_", "G", "L", "B", "?", "w", "i", "d",
      "t", "h", "=", "9", "0", "0", "&", "h", "e", "i", "g", "h", "t", "=",
      "9", "0", "0", "&", "f", "m", "t", "=", "j", "p", "e", "g">>,
    \* "_SR_RT_GLB?width=1200&height=1200&fmt=jpeg"
    <<"_", "S", "R", "_", "R", "T", "_", "G", "L", "B", "?", "w", "i", "d",
      "t", "h", "=", "1", "2", "0", "0", "&", "h", "e", "i", "g", "h", "t",
      "=", "1", "2", "0", "0", "&", "f", "m", "t", "=", "j", "p", "e", "g">>,
    \* "_SR_RT_GLB?width=1800&height=1800&fmt=jpeg"
    <<"_", "S", "R", "_", "R", "T", "_", "G", "L", "B", "?", "w", "i", "d",
      "t", "h", "=", "1", "8", "0", "0", "&", "h", "e", "i", "g", "h", "t",
      "=", "1", "8", "0", "0", "&", "f", "m", "t", "=", "j", "p", "e", "g">>
  >>

\* collections: the first entry and "TIGER".
AsicsCollections ==
  <<
    \* "RUNNING"
    <<"R", "U", "N", "N", "I", "N", "G">>,
    \* "TIGER"
    <<"T", "I", "G", "E", "R">>
  >>

\* Array.from(new Set(urls)) of the generators: the elements at the
\* positions of first occurrences, in order of position.
UniqueUrls(xs) ==
  CHOOSE v \in
    {[n \in 1..Cardinality(first) |->
        xs[CHOOSE k \in first : Cardinality({j \in first : j <= k}) = n]] :
       first \in {{k \in DOMAIN xs : \A j \in 1..(k - 1) : xs[j] # xs[k]}}} : TRUE

\* What generateAsicsImageUrls pushes to urls, in order.
AsicsEmitted(code) ==
  LET codes == <<code, UnderscoresToHyphens(code)>>
      basic ==
        Flatten([c \in DOMAIN codes |->
          Flatten([v \in DOMAIN AsicsBasicViews |->
            [f \in DOMAIN AsicsFormats |->
               AsicsBaseUrl \o codes[c] \o AsicsBasicViews[v] \o AsicsFormats[f]]])])
      detailed ==
        Flatten([c \in DOMAIN codes |->
          Flatten([v \in DOMAIN AsicsDetailedViews |->
            Flatten([r \in DOMAIN AsicsRegionSuffixes |->
              [f \in 1..Min(3, Len(AsicsFormats)) |->
                 AsicsBaseUrl \o codes[c] \o AsicsDetailedViews[v]
                   \o AsicsRegionSuffixes[r] \o AsicsFormats[f]]])])])
      other ==
        [k \in DOMAIN AsicsOtherSuffixes |->
           AsicsBaseUrl \o code \o AsicsOtherSuffixes[k]]
      special ==
        Flatten([k \in DOMAIN AsicsCollections |->
          <<AsicsBaseUrl \o code \o Underscore \o AsicsCollections[k]
              \o <<"_", "R", "T">> \o AsicsFormats[1],
            AsicsBaseUrl \o code \o Underscore \o AsicsCollections[k]
              \o <<"_", "F", "R">> \o AsicsFormats[1]>>])
  IN  basic \o detailed \o other \o special

generateAsicsImageUrls(code) == UniqueUrls(AsicsEmitted(code))

\* baseUrls: the third entry.
BottegaBaseUrls ==
  <<
    \* "https://image.bottegaveneta.com/product/"
    <<"h", "t", "t", "p", "s", ":", "/", "/", "i", "m", "a", "g", "e", ".",
      "b", "o", "t", "t", "e", "g", "a", "v", "e", "n", "e", "t", "a", ".",
      "c", "o", "m", "/", "p", "r", "o", "d", "u", "c", "t", "/">>
  >>

\* views: "_F" and "".
BottegaViews ==
  <<
    \* "_F"
    <<"_", "F">>,
    \* ""
    << >>
  >>

\* formats: "$zoom$", "?$zoom$" and "".
BottegaFormats ==
  <<
    \* "$zoom$"
    <<"$", "z", "o", "o", "m", "$">>,
    \* "?$zoom$"
    <<"?", "$", "z", "o", "o", "m", "$">>,
    \* ""
    << >>
  >>

\* lookbookPatterns: the third entry, before the product code.
LookbookPrefixes ==
  <<
    \* "https://assets.bottegaveneta.com/product/"
    <<"h", "t", "t", "p", "s", ":", "/", "/", "a", "s", "s", "e", "t", "s",
      ".", "b", "o", "t", "t", "e", "g", "a", "v", "e", "n", "e", "t", "a",
      ".", "c", "o", "m", "/", "p", "r", "o", "d", "u", "c", "t", "/">>
  >>

LookbookSuffix ==
  <<"/", "l", "o", "o", "k", "b", "o", "o", "k", "/">>

\* The three file names of a lookbook number.
LookbookNames ==
  <<
    \* "lookbook_"
    <<"l", "o", "o", "k", "b", "o", "o", "k", "_">>,
    \* "look_"
    <<"l", "o", "o", "k", "_">>,
    \* "model_"
    <<"m", "o", "d", "e", "l", "_">>
  >>

\* i of the lookbook loop: 1 and 2.
LookbookNumbers ==
  <<
    \* "1"
    <<"1">>,
    \* "2"
    <<"2">>
  >>

DotJpg ==
  <<".", "j", "p", "g">>
DotPng ==
  <<".", "p", "n", "g">>
SlashImages ==
  <<"/", "i", "m", "a", "g", "e", "s", "/">>
SlashMedia ==
  <<"/", "m", "e", "d", "i", "a", "/">>

\* The four code variations of the Bottega Veneta and generic generators.
CodeVariations(code) ==
  <<code, UnderscoresToHyphens(code),
    toLowerCase(code), toUpperCase(code)>>

\* What one round of the innermost loop of generateBottegaVenetaImageUrls
\* pushes.
BottegaRound(baseUrl, code, view, format) ==
  <<baseUrl \o code \o view \o <<"/">> \o format \o code \o DotJpg,
    baseUrl \o code \o view \o <<"/">> \o format \o code \o DotPng>>
  \o (IF format # << >> /\ format[1] = "?"
        THEN <<baseUrl \o code \o view \o DotJpg \o format,
               baseUrl \o code \o view \o DotPng \o format>>
        ELSE << >>)
  \o <<baseUrl \o code \o SlashImages \o view \o DotJpg,
       baseUrl \o code \o SlashImages \o view \o DotPng,
       baseUrl \o code \o SlashMedia \o view \o DotJpg,
       baseUrl \o code \o SlashMedia \o view \o DotPng>>

\* What generateBottegaVenetaImageUrls pushes to urls, in order.
BottegaEmitted(code) ==
  LET codes == CodeVariations(code)
      product ==
        Flatten([b \in DOMAIN BottegaBaseUrls |->
          Flatten([c \in DOMAIN codes |->
            Flatten([v \in DOMAIN BottegaViews |->
              Flatten([f \in DOMAIN BottegaFormats |->
                BottegaRound(BottegaBaseUrls[b], codes[c], BottegaViews[v],
                             BottegaFormats[f])])])])])
      lookbook ==
        Flatten([p \in DOMAIN LookbookPrefixes |->
          Flatten([n \in DOMAIN LookbookNumbers |->
            [k \in DOMAIN LookbookNames |->
               LookbookPrefixes[p] \o code \o LookbookSuffix
                 \o LookbookNames[k] \o LookbookNumbers[n] \o DotJpg]])])
  IN  product \o lookbook

generateBottegaVenetaImageUrls(code) == UniqueUrls(BottegaEmitted(code))

\* brands of extractPossibleBrandNames: the first two entries.
DefaultBrands ==
  <<
    \* "brand"
    <<"b", "r", "a", "n", "d">>,
    \* "fashion"
    <<"f", "a", "s", "h", "i", "o", "n">>
  >>

\* cdnPatterns: the sixth entry, before and after {brand}.
CdnPrefix ==
  <<"h", "t", "t", "p", "s", ":", "/", "/", "c", "d", "n", ".">>
CdnSuffix ==
  <<".", "c", "o", "m", "/", "p", "r", "o", "d", "u", "c", "t", "s", "/">>

\* views: the first entry and the last.
GenericViews ==
  <<
    \* "_1"
    <<"_", "1">>,
    \* ""
    << >>
  >>

\* extensions: ".jpg" and ".png".
GenericExtensions ==
  <<
    \* ".jpg"
    <<".", "j", "p", "g">>,
    \* ".png"
    <<".", "p", "n", "g">>
  >>

\* sizeParams: the first entry and the last.
GenericSizeParams ==
  <<
    \* "?w=1200&h=1200"
    <<"?", "w", "=", "1", "2", "0", "0", "&", "h", "=", "1", "2", "0", "0">>,
    \* ""
    << >>
  >>

\* productCode.match(/([a-zA-Z]+)/g): the maximal runs of letters from
\* position k on, left to right.
RECURSIVE LetterRuns(_, _)
LetterRuns(s, k) ==
  IF k > Len(s) THEN << >>
  ELSE IF InClass(s[k], "letter")
    THEN <<SubSeq(s, k, RunEnd(s, k, "letter"))>>
           \o LetterRuns(s, RunEnd(s, k, "letter") + 1)
  ELSE LetterRuns(s, k + 1)

extractPossibleBrandNames(code) ==
  LET long == SelectSeq(LetterRuns(code, 1), LAMBDA m : Len(m) >= 3)
  IN  DefaultBrands \o [k \in DOMAIN long |-> toLowerCase(long[k])]

\* What generateGenericBrandImageUrls pushes to urls, in order.
GenericEmitted(code) ==
  LET codes == CodeVariations(code)
      possibleBrands == extractPossibleBrandNames(code)
  IN  Flatten([b \in DOMAIN possibleBrands |->
        Flatten([c \in DOMAIN codes |->
          Flatten([v \in DOMAIN GenericViews |->
            Flatten([e \in DOMAIN GenericExtensions |->
              [z \in DOMAIN GenericSizeParams |->
                 CdnPrefix \o possibleBrands[b] \o CdnSuffix \o codes[c]
                   \o GenericViews[v] \o GenericExtensions[e]
                   \o GenericSizeParams[z]]])])])])

generateGenericBrandImageUrls(code) == UniqueUrls(GenericEmitted(code))

\* The urls array of the brand's generator before `new Set`.
Emitted(code, b) ==
  IF b = ASICS THEN AsicsEmitted(code)
  ELSE IF b = BOTTEGA_VENETA THEN BottegaEmitted(code)
  ELSE GenericEmitted(code)

generateImageUrls(code, b) ==
  IF b = ASICS THEN generateAsicsImageUrls(code)
  ELSE IF b = BOTTEGA_VENETA THEN generateBottegaVenetaImageUrls(code)
  ELSE generateGenericBrandImageUrls(code)

(***************************************************************************)
(* SpecGenerate: generateImageUrls for every brand on product codes with   *)
(* and without an underscore, in upper, lower and mixed case.              *)
(***************************************************************************)
\* First parts of a product code.
CodeHeads ==
  {
    <<"1", "2", "0", "3", "A", "4", "7", "4">>,
    <<"A", "B", "1", "2">>,
    <<"a", "b", "c">>,
    <<"G", "e", "l">>
  }

\* Second parts of a product code, possibly none.
CodeTails ==
  {
    << >>,
    <<"0", "0", "2">>,
    <<"K", "a", "y", "a", "n", "o">>
  }

ProductCodes ==
  {a \o sep \o b : a \in CodeHeads, sep \in {<< >>, Underscore}, b \in CodeTails}

InitGenerate ==
  /\ pc = "generate"
  /\ brand \in SupportedBrand
  /\ productCode \in {Found(c) : c \in ProductCodes}
  /\ generatedUrls = << >>
  /\ pageUrl = << >> /\ clusters = NoClusters /\ urls = << >>
  /\ page = NoPage /\ scrapedUrls = << >>
  /\ i = 0 /\ inflight = {} /\ results = << >> /\ validUrls = << >>
  /\ net = NoNet /\ started = << >> /\ batches = << >>
  /\ probe = NoProbe /\ verdict = Returns(FALSE) /\ response = Pending
  /\ doc = << >> /\ now = 0 /\ lastRequestTime = 0
  /\ searches = << >> /\ requests = << >>

\* getImagesFromUrl, step 1: generateImageUrls(productCode, brand).
GenerateImageUrls ==
  /\ pc = "generate"
  /\ generatedUrls' = generateImageUrls(productCode.code, brand)
  /\ pc' = "generated"
  /\ UNCHANGED <<doc, searchVars, pageUrl, productCode, page, brand, scrapedUrls,
                 urls, clusters, i, inflight, results, validUrls, net, started,
                 batches, probe, verdict, response>>

NextGenerate == GenerateImageUrls

SpecGenerate == InitGenerate /\ [][NextGenerate]_vars

\* C24: generateImageUrls returns a list without duplicates holding each
\* pushed URL at the place of its first push; the list is a function of
\* the arguments, is built without a network request, and is non-empty
\* for every brand, the unknown one included.
C24_GeneratedUniqueInEmissionOrder ==
  pc = "generated" =>
    LET pushed == Emitted(productCode.code, brand)
    IN  /\ \A j, k \in DOMAIN generatedUrls :
             j < k =>
               /\ generatedUrls[j] # generatedUrls[k]
               /\ FirstIndex(pushed, generatedUrls[j]) < FirstIndex(pushed, generatedUrls[k])
        /\ Range(generatedUrls) = Range(pushed)
        /\ generatedUrls # << >>
        /\ generatedUrls = generateImageUrls(productCode.code, brand)
        /\ net = NoNet /\ started = << >> /\ requests = << >>

\* Witness of C24: an unknown brand and a code without underscore, whose
\* variations repeat each other: fewer URLs returned than pushed.
C24_Witness ==
  /\ pc = "generated" /\ brand = UNKNOWN
  /\ "_" \notin Range(productCode.code)
  /\ Len(generatedUrls) < Len(Emitted(productCode.code, brand))
  /\ generatedUrls # << >>

(***************************************************************************)
(* The extractors of scrapeImagesFromPage.  A document is the sequence of  *)
(* its elements in document order.  An element has a tag, the containers   *)
(* it lies within, its attributes and the URL tokens of its srcset.  A     *)
(* script's content is given by what the extractors' matches and parses    *)
(* make of it.                                                             *)
(***************************************************************************)
MaxElements == 2    \* elements of a document

\* The page the document was fetched from.
ScrapePageUrl ==
  <<"h", "t", "t", "p", "s", ":", "/", "/", "s", "h", "o", "p", ".", "e", "x",
    "a", "m", "p", "l", "e", ".", "c", "o", "m", "/", "p", "/", "i", "t", "e",
    "m">>

\* Values found in the markup.
AsicsAbsolute ==
  <<"h", "t", "t", "p", "s", ":", "/", "/", "i", "m", "a", "g", "e", "s", ".",
    "a", "s", "i", "c", "s", ".", "c", "o", "m", "/", "i", "s", "/", "i", "m",
    "a", "g", "e", "/", "a", "s", "i", "c", "s", "/", "A", "1", "_", "S", "R",
    "_", "R", "T", "_", "G", "L", "B">>
AsicsSchemeless ==
  <<"/", "/", "i", "m", "a", "g", "e", "s", ".", "a", "s", "i", "c", "s", ".",
    "c", "o", "m", "/", "i", "s", "/", "i", "m", "a", "g", "e", "/", "a", "s",
    "i", "c", "s", "/", "A", "1", ".", "j", "p", "g">>
RootRelative ==
  <<"/", "i", "m", "a", "g", "e", "s", "/", "z", "o", "o", "m", "/", "a", ".",
    "j", "p", "g">>
PathRelative ==
  <<"i", "m", "g", "/", "c", ".", "p", "n", "g">>
BottegaAbsolute ==
  <<"h", "t", "t", "p", "s", ":", "/", "/", "w", "w", "w", ".", "b", "o", "t",
    "t", "e", "g", "a", "v", "e", "n", "e", "t", "a", ".", "c", "o", "m", "/",
    "i", "m", "g", "/", "b", "1", ".", "j", "p", "g">>

AsicsImagePath ==
  <<"a", "s", "i", "c", "s", ".", "c", "o", "m", "/", "i", "s", "/", "i", "m",
    "a", "g", "e", "/", "a", "s", "i", "c", "s", "/">>
OgImage ==
  <<"o", "g", ":", "i", "m", "a", "g", "e">>

\* a || b of two attribute values; a missing attribute is << >>.
Or(a, b) == IF a # << >> THEN a ELSE b

\* if (v) imageUrls.add(v)
Added(v) == IF v # << >> THEN <<v>> ELSE << >>

Attr(el, name) == IF name \in DOMAIN el.attrs THEN el.attrs[name] ELSE << >>

EndsWith(v, e) == Len(v) >= Len(e) /\ SubSeq(v, Len(v) - Len(e) + 1, Len(v)) = e

\* /\.(jpe?g|png|webp)/i
ImageExtensions ==
  {
    <<".", "j", "p", "g">>,
    <<".", "j", "p", "e", "g">>,
    <<".", "p", "n", "g">>,
    <<".", "w", "e", "b", "p">>
  }

DotGif ==
  <<".", "g", "i", "f">>

\* /\.(jpe?g|png|webp)/i.test(v)
HasImageExtension(v) == \E e \in ImageExtensions : includes(toLowerCase(v), e)

\* v.match(/\.(jpe?g|png|webp|gif)/i)
HasImageOrGifExtension(v) ==
  \E e \in ImageExtensions \cup {DotGif} : includes(toLowerCase(v), e)

IsAbsolute(v) ==
  \/ StartsWith(v, <<"h", "t", "t", "p", ":", "/", "/">>)
  \/ StartsWith(v, <<"h", "t", "t", "p", "s", ":", "/", "/">>)

\* new URL(v, baseUrl).href for a value without scheme: a value that starts
\* with "//" takes the base's scheme, one that starts with "/" the base's
\* origin, any other replaces what follows the last "/" of the base.
Href(v, baseUrl) ==
  LET colon == CHOOSE k \in DOMAIN baseUrl :
                 baseUrl[k] = ":" /\ \A j \in 1..(k - 1) : baseUrl[j] # ":"
      slashes == {k \in (colon + 3)..Len(baseUrl) : baseUrl[k] = "/"}
      pathStart == CHOOSE k \in slashes : \A j \in slashes : k <= j
      lastSlash == CHOOSE k \in slashes : \A j \in slashes : j <= k
  IN  IF StartsWith(v, <<"/", "/">>) THEN SubSeq(baseUrl, 1, colon) \o v
      ELSE IF StartsWith(v, <<"/">>) THEN SubSeq(baseUrl, 1, pathStart - 1) \o v
      ELSE SubSeq(baseUrl, 1, lastSlash) \o v

\* v.startsWith('http') ? v : new URL(v, baseUrl).href
Resolve(v, baseUrl) ==
  IF StartsWith(v, <<"h", "t", "t", "p">>) THEN v ELSE Href(v, baseUrl)

\* A script whose content no match or parse of the extractors finds
\* anything in: product is the JSON.parse of the ASICS match with its
\* product.images, images and media are the parses of patterns 1 and 2 of
\* Bottega Veneta, ld is the parse of the whole content with its image
\* of a Product, quoted are the quoted strings of the content.
NoScript ==
  [type |-> "none", markers |-> {},
   product |-> "none", productImages |-> << >>,
   images |-> "none", imagesList |-> << >>,
   media |-> "none", mediaImages |-> << >>,
   ld |-> "none", ldImage |-> << >>,
   quoted |-> << >>]

Element(tag, within, attrs, srcset) ==
  [tag |-> tag, within |-> within, attrs |-> attrs, srcset |-> srcset,
   script |-> NoScript]

Script(content) ==
  [tag |-> "script", within |-> {}, attrs |-> << >>, srcset |-> << >>,
   script |-> content]

\* The elements a document is made of.
ElementPool ==
  { Element("img", {}, ("src" :> AsicsAbsolute), << >>),
    Element("img", {".product-gallery"}, ("src" :> PathRelative), << >>),
    Element("img", {"PDPFullGallery", "ZoomableImage"},
            ("data-original" :> BottegaAbsolute @@ "src" :> RootRelative), << >>),
    Element("img", {"ZoomableImage"}, << >>, << >>),
    Element("source", {"picture"}, << >>, <<AsicsSchemeless, AsicsAbsolute>>),
    Element("div", {}, ("data-zoom-image" :> RootRelative), << >>),
    Element("a", {}, ("href" :> RootRelative), << >>),
    Element("meta", {}, ("property" :> OgImage @@ "content" :> BottegaAbsolute), << >>),
    Script([NoScript EXCEPT !.type = "ld", !.ld = "good", !.ldImage = <<RootRelative>>,
                            !.quoted = <<RootRelative>>]),
    Script([NoScript EXCEPT !.type = "ld", !.ld = "bad"]),
    Script([NoScript EXCEPT !.type = "inline", !.markers = {"product", "images"},
                            !.product = "good",
                            !.productImages = <<AsicsAbsolute, AsicsSchemeless>>,
                            !.images = "good",
                            !.imagesList = <<AsicsAbsolute, AsicsSchemeless>>,
                            !.quoted = <<AsicsAbsolute, AsicsSchemeless>>]),
    Script([NoScript EXCEPT !.type = "inline", !.markers = {"product", "images"},
                            !.product = "bad", !.images = "bad",
                            !.quoted = <<BottegaAbsolute>>]),
    Script([NoScript EXCEPT !.type = "inline", !.markers = {"images", "media"},
                            !.images = "bad", !.media = "good",
                            !.mediaImages = <<PathRelative>>,
                            !.quoted = <<PathRelative>>]) }

\* $(selector).each: what the rule adds for each selected element, in
\* document order.
Scripts(d) == SelectSeq(d, LAMBDA el : el.tag = "script")

(***************************************************************************)
(* scrapeAsicsImages                                                       *)
(***************************************************************************)
\* Rule 4 for one script: JSON.parse inside the try of the loop's body.
AsicsScriptUrls(sc) ==
  IF "product" \in sc.markers /\ "images" \in sc.markers /\ sc.product = "good"
    THEN SelectSeq(sc.productImages, LAMBDA v : includes(v, AsicsImagePath))
    ELSE << >>

\* What scrapeAsicsImages adds to imageUrls, in order.
AsicsAdded(d) ==
  LET zoom == SelectSeq(d, LAMBDA el : "data-zoom-image" \in DOMAIN el.attrs)
      imgs == SelectSeq(d, LAMBDA el :
                el.tag = "img" /\ includes(Attr(el, "src"), AsicsImagePath))
      sources == SelectSeq(d, LAMBDA el : el.tag = "source" /\ "picture" \in el.within)
      scripts == Scripts(d)
  IN  Flatten([k \in DOMAIN zoom |-> Added(Attr(zoom[k], "data-zoom-image"))])
      \o [k \in DOMAIN imgs |-> Attr(imgs[k], "src")]
      \o Flatten([k \in DOMAIN sources |->
           SelectSeq(sources[k].srcset, LAMBDA v : includes(v, AsicsImagePath))])
      \o Flatten([k \in DOMAIN scripts |-> AsicsScriptUrls(scripts[k].script)])

(***************************************************************************)
(* scrapeBottegaVenetaImages                                               *)
(***************************************************************************)
\* gallerySelectors, as the containers an img must lie within: the first
\* two entries, ".product-gallery img" and ".swiper-slide img".
BottegaGallerySelectors ==
  << {"PDPFullGallery", "ZoomableImage"}, {"ZoomableImage"},
     {".product-gallery"}, {".swiper-slide"} >>

\* What the body of the gallery loop adds for one img.
GalleryImageUrls(el) ==
  Added(Or(Attr(el, "data-original"), Attr(el, "data-src-original")))
  \o Added(Or(Attr(el, "data-src"), Attr(el, "data-lazy-src")))
  \o Added(Attr(el, "src"))
  \o (IF el.srcset # << >> THEN <<el.srcset[Len(el.srcset)]>> \o el.srcset ELSE << >>)

SelectorUrls(d, selector) ==
  LET imgs == SelectSeq(d, LAMBDA el : el.tag = "img" /\ selector \subseteq el.within)
  IN  Flatten([k \in DOMAIN imgs |-> GalleryImageUrls(imgs[k])])

\* Every gallery selector evaluated.
GalleryUnion(d, k) ==
  Flatten([n \in k..Len(BottegaGallerySelectors) |->
             SelectorUrls(d, BottegaGallerySelectors[n])])

\* The gallery loop from selector k on; imageUrls is empty when the loop
\* starts, so its size is positive as soon as a selector has added a URL.
RECURSIVE GalleryUrls(_, _)
GalleryUrls(d, k) ==
  IF k > Len(BottegaGallerySelectors) THEN << >>
  ELSE IF SelectorUrls(d, BottegaGallerySelectors[k]) # << >>
    THEN SelectorUrls(d, BottegaGallerySelectors[k])
  ELSE GalleryUrls(d, k + 1)

\* /["'](https:\/\/[^"']+?bottegaveneta[^"']+?\.(jpe?g|png|webp))["']/gi on
\* a quoted string of the content.
BottegaQuoted(v) ==
  /\ StartsWith(v, <<"h", "t", "t", "p", "s", ":", "/", "/">>)
  /\ includes(toLowerCase(v), <<"b", "o", "t", "t", "e", "g", "a", "v", "e", "n", "e", "t", "a">>)
  /\ \E e \in ImageExtensions : EndsWith(toLowerCase(v), e)

\* Rule 2 for one script: patterns 1 and 2, each with its own try, then
\* the URL pattern.
BottegaScriptUrls(sc) ==
  (IF sc.markers # {}
     THEN (IF sc.images = "good" THEN sc.imagesList ELSE << >>)
          \o (IF sc.media = "good" THEN sc.mediaImages ELSE << >>)
     ELSE << >>)
  \o SelectSeq(sc.quoted, BottegaQuoted)

\* What rules 2 to 4 of scrapeBottegaVenetaImages add to imageUrls, in order.
BottegaBeyondGallery(d) ==
  LET scripts == Scripts(d)
      metas == SelectSeq(d, LAMBDA el :
                 el.tag = "meta" /\ (Attr(el, "property") = OgImage \/ Attr(el, "name") = OgImage))
      zooms == SelectSeq(d, LAMBDA el :
                 \/ el.tag = "a" /\ includes(Attr(el, "href"), <<"z", "o", "o", "m">>)
                 \/ el.tag = "a" /\ "data-zoom" \in DOMAIN el.attrs
                 \/ "data-zoom-src" \in DOMAIN el.attrs)
      zoomSrc == [k \in DOMAIN zooms |->
                    Or(Attr(zooms[k], "href"),
                       Or(Attr(zooms[k], "data-zoom"), Attr(zooms[k], "data-zoom-src")))]
  IN  Flatten([k \in DOMAIN scripts |-> BottegaScriptUrls(scripts[k].script)])
      \o Flatten([k \in DOMAIN metas |-> Added(Attr(metas[k], "content"))])
      \o SelectSeq(zoomSrc, HasImageExtension)

\* What scrapeBottegaVenetaImages adds to imageUrls, in order.
BottegaAdded(d) == GalleryUrls(d, 1) \o BottegaBeyondGallery(d)

(***************************************************************************)
(* scrapeGenericImages                                                     *)
(***************************************************************************)
\* gallerySelectors: ".product-gallery img" and ".swiper-slide img".
GenericGallerySelectors == << {".product-gallery"}, {".swiper-slide"} >>

\* Rule 4 for one JSON-LD script: JSON.parse inside the try of the callback.
JsonLdUrls(sc) == IF sc.ld = "good" THEN sc.ldImage ELSE << >>

\* /(['"])(https?:\/\/[^'"]+\.(?:jpe?g|png|webp|gif))(?:\?[^'"]*)?(['"])/gi
\* on a quoted string without query.
GenericQuoted(v) ==
  /\ IsAbsolute(v)
  /\ \E e \in ImageExtensions \cup {DotGif} : EndsWith(toLowerCase(v), e)

\* What scrapeGenericImages adds to imageUrls, in order.
GenericAdded(d, baseUrl) ==
  LET imgs == SelectSeq(d, LAMBDA el : el.tag = "img")
      srcsets == SelectSeq(d, LAMBDA el : el.tag \in {"img", "source"} /\ el.srcset # << >>)
      links == SelectSeq(d, LAMBDA el :
                 \/ el.tag = "a" /\ includes(Attr(el, "href"), <<"z", "o", "o", "m">>)
                 \/ el.tag = "a" /\ includes(Attr(el, "href"), <<"l", "a", "r", "g", "e">>)
                 \/ el.tag = "a" /\ "data-zoom" \in DOMAIN el.attrs
                 \/ "data-zoom-image" \in DOMAIN el.attrs)
      href == SelectSeq([k \in DOMAIN links |->
                 Or(Attr(links[k], "href"),
                    Or(Attr(links[k], "data-zoom"), Attr(links[k], "data-zoom-image")))],
                HasImageOrGifExtension)
      jsonLd == SelectSeq(d, LAMBDA el : el.tag = "script" /\ el.script.type = "ld")
      scripts == Scripts(d)
  IN  Flatten([k \in DOMAIN imgs |->
        LET src == Or(Attr(imgs[k], "src"),
                      Or(Attr(imgs[k], "data-src"), Attr(imgs[k], "data-lazy-src")))
        IN  IF src # << >> THEN <<Resolve(src, baseUrl)>> ELSE << >>])
      \o Flatten([k \in DOMAIN srcsets |->
           [n \in DOMAIN srcsets[k].srcset |-> Resolve(srcsets[k].srcset[n], baseUrl)]])
      \o [k \in DOMAIN href |-> Resolve(href[k], baseUrl)]
      \o Flatten([k \in DOMAIN jsonLd |-> JsonLdUrls(jsonLd[k].script)])
      \o Flatten([s \in DOMAIN GenericGallerySelectors |->
           LET sel == SelectSeq(d, LAMBDA el :
                        el.tag = "img" /\ GenericGallerySelectors[s] \subseteq el.within)
           IN  Flatten([k \in DOMAIN sel |->
                 LET src == Or(Attr(sel[k], "src"), Attr(sel[k], "data-src"))
                 IN  IF src # << >> THEN <<Resolve(src, baseUrl)>> ELSE << >>])])
      \o Flatten([k \in DOMAIN scripts |->
           SelectSeq(scripts[k].script.quoted, GenericQuoted)])

\* The parse failure not caught: the catch of scrapeImagesFromPage returns [].
ScrapeUncaught(d, b, baseUrl) ==
  IF \E k \in DOMAIN d :
       LET sc == d[k].script
       IN  \/ b = ASICS /\ {"product", "images"} \subseteq sc.markers /\ sc.product = "bad"
           \/ b = BOTTEGA_VENETA /\ sc.markers # {} /\ "bad" \in {sc.images, sc.media}
           \/ b = UNKNOWN /\ sc.type = "ld" /\ sc.ld = "bad"
    THEN << >>
    ELSE UniqueUrls(IF b = ASICS THEN AsicsAdded(d)
                    ELSE IF b = BOTTEGA_VENETA THEN BottegaAdded(d)
                    ELSE GenericAdded(d, baseUrl))

\* scrapeImagesFromPage after the fetch: the brand's extractor fills the
\* Set, Array.from lists it in insertion order.
ScrapeDocument(d, b, baseUrl) ==
  UniqueUrls(IF b = ASICS THEN AsicsAdded(d)
             ELSE IF b = BOTTEGA_VENETA THEN BottegaAdded(d)
             ELSE GenericAdded(d, baseUrl))

(***************************************************************************)
(* SpecScrape: the extraction of scrapeImagesFromPage on every document    *)
(* of at most MaxElements elements, for every brand.                       *)
(***************************************************************************)
Documents ==
  UNION {[1..n -> ElementPool] : n \in 0..MaxElements}

InitScrape ==
  /\ pc = "scrape"
  /\ brand \in SupportedBrand
  /\ doc \in Documents
  /\ pageUrl = ScrapePageUrl
  /\ scrapedUrls = << >>
  /\ productCode = NoCode /\ generatedUrls = << >>
  /\ clusters = NoClusters /\ urls = << >> /\ page = NoPage
  /\ i = 0 /\ inflight = {} /\ results = << >> /\ validUrls = << >>
  /\ net = NoNet /\ started = << >> /\ batches = << >>
  /\ probe = NoProbe /\ verdict = Returns(FALSE) /\ response = Pending
  /\ now = 0 /\ lastRequestTime = 0
  /\ searches = << >> /\ requests = << >>

\* scrapeImagesFromPage, from cheerio.load to the return.
ScrapeImages ==
  /\ pc = "scrape"
  /\ scrapedUrls' = ScrapeDocument(doc, brand, pageUrl)
  /\ pc' = "scraped"
  /\ UNCHANGED <<doc, searchVars, pageUrl, productCode, page, brand, generatedUrls,
                 urls, clusters, i, inflight, results, validUrls, net, started,
                 batches, probe, verdict, response>>

NextScrape == ScrapeImages

SpecScrape == InitScrape /\ [][NextScrape]_vars

\* C21: every URL scrapeImagesFromPage returns is absolute, whichever
\* extractor found it.
C21_ScrapedUrlsAbsolute ==
  pc = "scraped" => \A k \in DOMAIN scrapedUrls : IsAbsolute(scrapedUrls[k])

\* A parse of the script's content that the brand's extractor attempts
\* throws.
ParseFails(sc, b) ==
  \/ b = ASICS /\ {"product", "images"} \subseteq sc.markers /\ sc.product = "bad"
  \/ b = BOTTEGA_VENETA /\ sc.markers # {} /\ "bad" \in {sc.images, sc.media}
  \/ b = UNKNOWN /\ sc.type = "ld" /\ sc.ld = "bad"

Unparsed(state) == IF state = "bad" THEN "none" ELSE state

\* The document with nothing to parse where a parse fails.
WithoutFailures(d) ==
  [k \in DOMAIN d |->
     [d[k] EXCEPT !.script.product = Unparsed(@), !.script.images = Unparsed(@),
                  !.script.media = Unparsed(@), !.script.ld = Unparsed(@)]]

\* C22: a parse failure in a script is caught at that attempt: the page
\* yields what it would yield had the attempt found nothing to parse, the
\* URLs of the other rules, scripts and attempts included.
C22_ParseFailureSkipsOneAttempt ==
  pc = "scraped" =>
    /\ scrapedUrls = ScrapeDocument(WithoutFailures(doc), brand, pageUrl)
    /\ \A k \in DOMAIN doc :
         ParseFails(doc[k].script, brand) =>
           \A j \in DOMAIN doc \ {k} :
             doc[j].tag = "script" /\ ~ParseFails(doc[j].script, brand) =>
               Range(ScrapeDocument(<<doc[j]>>, brand, pageUrl)) \subseteq Range(scrapedUrls)

\* Witness of C22: a script whose parse fails, followed by a script that
\* yields a URL, which is returned.
C22_Witness ==
  /\ pc = "scraped" /\ Len(doc) = 2
  /\ ParseFails(doc[1].script, brand)
  /\ doc[2].tag = "script" /\ ~ParseFails(doc[2].script, brand)
  /\ ScrapeDocument(<<doc[2]>>, brand, pageUrl) # << >>
  /\ Range(ScrapeDocument(<<doc[2]>>, brand, pageUrl)) \subseteq Range(scrapedUrls)

====
